---- MODULE Spec2Model ----
(***************************************************************************)
(* gbe-envoy: the router (control-plane broker), the adapter that wraps a  *)
(* child command, and the proxies (relays) the router spawns.              *)
(*                                                                         *)
(* Strings are sequences of one-character strings; the fixed pieces of an  *)
(* address ("unix://", "/tmp/gbe-", ".sock") are kept as single tokens.    *)
(***************************************************************************)
EXTENDS Integers, Sequences, FiniteSets, TLC

\* ---------------------------------------------------------------- bounds
\* largest value next_seq hands out before the model stops allocating
MaxSeq == 5
\* lines the arbitrary clients write on their control connections, in total
MaxLines == 4
\* lines the wrapped command writes, over both of its pipes
MaxOut == 2
\* bytes in the payload of a frame given to the codec
MaxPayload == 2
\* frames written to one buffer
MaxFrames == 2
\* largest capacity a ring buffer is created with
MaxCap == 3
\* lines pushed onto one ring buffer
MaxPushes == 5
\* characters in the initial content of a text store
MaxContent == 2
\* characters in a text inserted into a text store
MaxText == 1
\* bytes a text store grows to
MaxRope == 3
\* short writes (fewer bytes accepted than asked) one write_all meets
MaxShort == 1

\* ------------------------------------------------------------- constants
\* process::id() of the router
Pid == 42

\* control connections the accept loop has handed to a worker; the adapter
\* process is the peer of AdapterConn, arbitrary clients are the peers of
\* the others
AdapterConn == "ad"
Clients == {"c1", "c2"}
Consumer == "c1"
Conns == {AdapterConn} \cup Clients
\* exit codes the wrapped command ends with: success and a failure
ExitCodes == {0, 3}

\* capability lists a peer puts in Connect: the adapter sends vec![], the
\* clients the lists of test_query_capabilities and test_subscribe_to_tool
CapSets(c) == IF c = AdapterConn THEN {<< >>}
              ELSE IF c = Consumer THEN {<<"pty", "color">>}
              ELSE {<<"raw">>}

\* ------------------------------------------------------- string helpers
DigitChars == <<"0", "1", "2", "3", "4", "5", "6", "7", "8", "9">>

RECURSIVE Digits(_)
\* decimal rendering of a natural number ({} in format!)
Digits(n) == IF n < 10 THEN <<DigitChars[n + 1]>>
             ELSE Append(Digits(n \div 10), DigitChars[(n % 10) + 1])

\* {:0w}: left-pad with "0" to at least w characters
PadZero(ds, w) == IF Len(ds) >= w THEN ds
                  ELSE [i \in 1..(w - Len(ds)) |-> "0"] \o ds

DigitVal(ch) == CHOOSE d \in 0..9 : DigitChars[d + 1] = ch

RECURSIVE ParseU64(_)
\* str::parse::<u64> of a string of decimal digits
ParseU64(ds) == IF ds = << >> THEN 0
                ELSE 10 * ParseU64(SubSeq(ds, 1, Len(ds) - 1)) + DigitVal(ds[Len(ds)])

\* index of the first '-' of s (0 when there is none)
DashPos(s) == IF \E i \in 1..Len(s) : s[i] = "-"
              THEN CHOOSE i \in 1..Len(s) : s[i] = "-" /\ \A j \in 1..(i - 1) : s[j] # "-"
              ELSE 0

\* id.split('-')[1].parse::<u64>() as in test_tool_id_format
OrdinalOf(id) == ParseU64(SubSeq(id, DashPos(id) + 1, Len(id)))

\* ------------------------------------------------------------ RouterState
\* a counter that is read but not advanced (load in place of fetch_add)
fetch_add_load_only(n) == n

\* a counter that advances by two
fetch_add_by_two(n) == n + 2

\* AtomicU64::fetch_add(1, SeqCst): the value the counter holds afterwards
\* (the value returned is the one it held before)
fetch_add(n) == n + 1

\* format!("{pid}-{seq:03}")
FormatToolId(seq) == Digits(Pid) \o <<"-">> \o PadZero(Digits(seq), 3)

\* format!("unix:///tmp/gbe-{tool_id}.sock")
assign_data_address(tid) == <<"unix://", "/tmp/gbe-">> \o tid \o <<".sock">>

\* format!("unix:///tmp/gbe-proxy-{pid}-{proxy_seq:03}.sock")
ProxyListenAddress(seq) ==
    <<"unix://", "/tmp/gbe-proxy-">> \o Digits(Pid) \o <<"-">> \o PadZero(Digits(seq), 3) \o <<".sock">>

\* addr.strip_prefix("unix://")
strip_prefix(addr) == IF addr # << >> /\ Head(addr) = "unix://" THEN Tail(addr) ELSE << >>

\* Option::None for a ToolId
NoId == << >>
\* Option::None for a ControlMessage
NoMsg == [type |-> "None"]
\* a worker that is between two messages: no arm's locals are live
NoLocals == [arm |-> "None"]

\* the identity used by test_subscribe_to_unknown_tool
UnknownId == <<"9", "9", "9", "9", "9", "-", "9", "9", "9">>

\* HashMap::insert / HashMap::remove on a map kept as a function
MapInsert(m, k, v) == [x \in (DOMAIN m) \cup {k} |-> IF x = k THEN v ELSE m[x]]
MapRemove(m, k) == [x \in (DOMAIN m) \ {k} |-> m[x]]
EmptyMap == [x \in {} |-> NoMsg]

\* the orders in which an iterator over a HashMap can visit its keys
IterOrders(m) ==
    {o \in [1..Cardinality(DOMAIN m) -> DOMAIN m] :
        \A i, j \in 1..Cardinality(DOMAIN m) : i # j => o[i] # o[j]}

\* Vec::retain(|sub| sub != tid)
RECURSIVE RetainNot(_, _)
RetainNot(list, tid) ==
    IF list = << >> THEN << >>
    ELSE IF Head(list) = tid THEN RetainNot(Tail(list), tid)
         ELSE <<Head(list)>> \o RetainNot(Tail(list), tid)

VARIABLES
    next_seq,       \* RouterState.next_seq
    connections,    \* RouterState.connections : ToolId -> ConnectionInfo
    subscriptions,  \* RouterState.subscriptions : source -> Vec<subscriber>
    proxies,        \* RouterState.proxies : source -> ProxyInfo
    pc,             \* where each worker (handle_connection) stands
    tool_id,        \* handle_connection's local tool_id : Option<ToolId>
    locals,         \* live locals of the match arm a worker is inside
    response,       \* handle_connection's local response : Option<ControlMessage>
    nread,          \* calls of recv_message that have returned on the connection
    replies,        \* replies written since recv_message last returned
    issued,         \* history: the results of assign_tool_id, in allocation order
    unregistered,   \* history: identities whose unregister_connection returned
    subAcks,        \* history: the SubscribeAck replies written, by target
    unsub_log,      \* history: the (subscriber, target) pairs the Unsubscribe arm logged
    sub_log,        \* history: the (target, subscriber) pairs add_subscription was called with
    relays,         \* the gbe-proxy processes spawn_proxy was called for, by proxy_seq
    adapter,        \* the gbe-adapter process
    seq,            \* adapter main(): seq, the AtomicU64 the framer threads share
    child_io,       \* the wrapped command and its stdout / stderr pipes
    framers,        \* handle_data_stream: stdout_thread and stderr_thread
    upstream,       \* the data connection from the adapter to the proxy
    proxy,          \* gbe-proxy main(): where the main thread stands, its frame
    downstreams,    \* ProxyState.downstreams : id -> the viewer behind the writer
    next_id,        \* ProxyState.next_id
    incoming,       \* viewers connected to the proxy's listener, not yet accepted
    viewers,        \* each viewer's end of its data connection
    sent,           \* frames written and flushed to each viewer's connection
    bcast,          \* history: the frames broadcast_frame was called with
    joined,         \* history: what had been read and broadcast at each insert
    evicted,        \* history: viewers removed by broadcast_frame
    early,          \* history: viewers that connected before the first broadcast
    codec,          \* gbe-protocol: a byte buffer frames are written to and read from
    ring,           \* gbe-buffer: a RingBuffer and the lines pushed onto it
    rope,           \* gbe-buffer: a RopeBuffer and the last calls made on it
    data_sock,      \* the adapter's data listener and the peers that connect to it
    wire            \* the bytes the framer threads have put on the data connection

routerVars == <<next_seq, connections, subscriptions, proxies>>
workerVars == <<pc, tool_id, locals, response, nread, replies>>
historyVars == <<issued, unregistered, subAcks, unsub_log, sub_log>>
adapterDataVars == <<seq, child_io, framers, upstream>>
proxyDataVars == <<proxy, downstreams, next_id, incoming>>
viewerVars == <<viewers, sent>>
dataHistoryVars == <<bcast, joined, evicted, early>>
libVars == <<codec, ring, rope, data_sock, wire>>
dataVars == <<seq, child_io, framers, upstream, proxy, downstreams, next_id, incoming,
              viewers, sent, bcast, joined, evicted, early>>
vars == <<next_seq, connections, subscriptions, proxies, pc, tool_id, locals, response,
          nread, replies, issued, unregistered, subAcks, unsub_log, sub_log, relays, adapter,
          seq, child_io, framers, upstream, proxy, downstreams, next_id, incoming,
          viewers, sent, bcast, joined, evicted, early, codec, ring, rope, data_sock, wire>>

\* a lookup that makes up an entry for a key it does not hold
\* (entry().or_default() in place of get())
get_connection_or_default(tid) ==
    IF tid \in DOMAIN connections THEN connections[tid]
    ELSE [tool_id |-> tid, data_listen_address |-> assign_data_address(tid),
          capabilities |-> << >>]

\* RouterState::get_connection
get_connection(tid) == IF tid \in DOMAIN connections THEN connections[tid] ELSE NoMsg

\* RouterState::subscriber_count
subscriber_count(source) ==
    IF source \in DOMAIN subscriptions THEN Len(subscriptions[source]) ELSE 0

\* RouterState::get_proxy_address
get_proxy_address(source) ==
    IF source \in DOMAIN proxies THEN proxies[source].listen_address ELSE << >>

\* a listing of every identity ever handed out, in place of the registry
list_tools_ever_issued(order) ==
    [i \in 1..Len(issued) |->
        [tool_id |-> issued[i].id, capabilities |-> issued[i].capabilities]]

\* RouterState::list_tools: conns.values().map(ToolInfo {..}).collect(), in
\* the order the HashMap's iterator visits the entries
list_tools(order) ==
    [i \in 1..Len(order) |->
        [tool_id |-> connections[order[i]].tool_id,
         capabilities |-> connections[order[i]].capabilities]]

\* a scrub whose outer retain keeps the lists it has emptied
ScrubSubscriptions_keeps_empty(subs, tid) ==
    [s \in DOMAIN subs \ {tid} |-> RetainNot(subs[s], tid)]

\* the subscription table after unregister_connection's retain + remove
ScrubSubscriptions(subs, tid) ==
    LET kept == {s \in DOMAIN subs : RetainNot(subs[s], tid) # << >>}
    IN  [s \in kept \ {tid} |-> RetainNot(subs[s], tid)]

\* unregister_connection holds the connections mutex from its first line to
\* its return, and the subscriptions mutex from its retain to its return;
\* every other operation takes one mutex for one statement
ConnectionsLockFree == \A c \in Conns : pc[c] \notin {"unreg_subs", "unreg_proxies"}
SubscriptionsLockFree == \A c \in Conns : pc[c] # "unreg_proxies"

\* the table mutexes whose guard a worker holds between two of its steps:
\* unregister_connection keeps conns, then subs, alive to the end of the function
MutexesHeld(c) ==
    IF pc[c] = "unreg_subs" THEN {"connections"}
    ELSE IF pc[c] = "unreg_proxies" THEN {"connections", "subscriptions"}
    ELSE {}

\* ------------------------------------------------- state of the data path
Streams == {"stdout", "stderr"}
Viewers == {"v1", "v2"}

\* DataFrame::new(seq, payload)
DataFrame(s, payload) == [seq |-> s, payload |-> payload]
NoFrame == [seq |-> -1, payload |-> << >>]

\* the payload a framer thread builds from a line: line + "\n" for stdout,
\* format!("[stderr] {}", line) + "\n" for stderr
FramePayload(stream, line) ==
    IF stream = "stdout" THEN line \o <<"\n">>
    ELSE <<"[stderr] ">> \o line \o <<"\n">>

routerSide == <<routerVars, workerVars, historyVars, relays, adapter>>

DataIdle ==
    /\ seq = 0
    /\ child_io = [st |-> "none", written |-> 0, to_stderr |-> 0,
                   stdout |-> << >>, stderr |-> << >>]
    /\ framers = [s \in Streams |-> [pc |-> "none", frame |-> NoFrame]]
    /\ upstream = [st |-> "none", wire |-> << >>, nread |-> 0]
    /\ proxy = [pc |-> "none", frame |-> NoFrame]
    /\ downstreams = EmptyMap
    /\ next_id = 1
    /\ incoming = << >>
    /\ viewers = [v \in Viewers |-> "idle"]
    /\ sent = [v \in Viewers |-> << >>]
    /\ bcast = << >>
    /\ joined = EmptyMap
    /\ evicted = {}
    /\ early = {}

\* ------------------------------------------- gbe-protocol: DataFrame codec
\* bytes a payload is made of: a line feed and a byte above 0x7f
PayloadBytes == {10, 200}
\* seq of the first frame written to a buffer; the next frames count up from
\* it, across the carry from the lowest byte into the next (255, 256)
SeqBases == {0, 255}

RECURSIVE SeqsUpTo(_, _)
\* the sequences over set S of length n or less
SeqsUpTo(S, n) ==
    IF n = 0 THEN {<< >>}
    ELSE LET shorter == SeqsUpTo(S, n - 1)
         IN  shorter \cup {Append(s, x) : s \in {t \in shorter : Len(t) = n - 1}, x \in S}

Payloads == SeqsUpTo(PayloadBytes, MaxPayload)

RECURSIVE to_be_bytes(_, _)
\* uN::to_be_bytes of the low w bytes of n (a cast `as uN` keeps those)
to_be_bytes(n, w) ==
    IF w = 0 THEN << >> ELSE Append(to_be_bytes(n \div 256, w - 1), n % 256)

RECURSIVE from_be_bytes(_)
\* uN::from_be_bytes
from_be_bytes(bytes) ==
    IF bytes = << >> THEN 0
    ELSE 256 * from_be_bytes(SubSeq(bytes, 1, Len(bytes) - 1)) + bytes[Len(bytes)]

\* an encoder that writes the length field low byte first
to_bytes_length_little_endian(frame) ==
    LET be == to_be_bytes(Len(frame.payload), 4)
    IN  <<be[4], be[3], be[2], be[1]>> \o to_be_bytes(frame.seq, 8) \o frame.payload

\* DataFrame::to_bytes: [u32 len][u64 seq][payload], big-endian
to_bytes(frame) ==
    to_be_bytes(Len(frame.payload), 4) \o to_be_bytes(frame.seq, 8) \o frame.payload

Ok(value) == [res |-> "Ok", value |-> value]
Err(error) == [res |-> "Err", error |-> error]
InvalidFrame(text) == [variant |-> "InvalidFrame", detail |-> text]
\* ProtocolError::Io(e) for the io::Error read_exact gives on a short read
IoUnexpectedEof == [variant |-> "Io", detail |-> "UnexpectedEof"]

\* DataFrame::from_bytes
from_bytes(bytes) ==
    IF Len(bytes) < 12 THEN Err(InvalidFrame("Frame too short"))
    ELSE LET len == from_be_bytes(SubSeq(bytes, 1, 4))
             s   == from_be_bytes(SubSeq(bytes, 5, 12))
         IN  IF Len(bytes) # 12 + len THEN Err(InvalidFrame("Expected 12 + len bytes"))
             ELSE Ok(DataFrame(s, SubSeq(bytes, 13, Len(bytes))))

\* Read::read_exact of n bytes on a reader holding buf, pos bytes consumed:
\* the bytes, or UnexpectedEof with what was left consumed
read_exact(buf, pos, n) ==
    IF Len(buf) - pos >= n
    THEN [ok |-> TRUE, bytes |-> SubSeq(buf, pos + 1, pos + n), pos |-> pos + n]
    ELSE [ok |-> FALSE, bytes |-> << >>, pos |-> Len(buf)]

\* DataFrame::read_from: three read_exact calls, each followed by `?`
read_from(buf, pos) ==
    LET len_buf == read_exact(buf, pos, 4)
    IN  IF ~len_buf.ok THEN [result |-> Err(IoUnexpectedEof), pos |-> len_buf.pos]
        ELSE
        LET seq_buf == read_exact(buf, len_buf.pos, 8)
        IN  IF ~seq_buf.ok THEN [result |-> Err(IoUnexpectedEof), pos |-> seq_buf.pos]
            ELSE
            LET payload == read_exact(buf, seq_buf.pos, from_be_bytes(len_buf.bytes))
            IN  IF ~payload.ok
                THEN [result |-> Err(IoUnexpectedEof), pos |-> payload.pos]
                ELSE [result |-> Ok(DataFrame(from_be_bytes(seq_buf.bytes), payload.bytes)),
                      pos |-> payload.pos]

\* no buffer yet
CodecIdle ==
    [pc |-> "none",         \* none, writing, reading, done
     next_seq |-> 0,        \* seq of the next frame written
     buf |-> << >>,         \* the bytes the reader will find
     pos |-> 0,             \* bytes the reader has consumed
     written |-> << >>,     \* history: the frames write_to was called with
     lost |-> 0,            \* history: bytes of the last write that never arrived
     round |-> Ok(NoFrame), \* from_bytes(to_bytes(f)) of the last frame written
     reads |-> << >>]       \* history: what each read_from call found and returned

\* ------------------------------------------------- gbe-buffer: RingBuffer
\* lines a consumer pushes
RingLines == {<<"a">>, <<"b">>}
None == [some |-> FALSE]
Some(x) == [some |-> TRUE, value |-> x]

\* RingBuffer::new(capacity), capacity != 0
RingBuffer_new(capacity) ==
    [capacity |-> capacity, lines |-> << >>, total_pushed |-> 0]

\* RingBuffer::len
ring_len(rb) == Len(rb.lines)
\* RingBuffer::is_full
is_full(rb) == Len(rb.lines) >= rb.capacity
\* RingBuffer::total_pushed
total_pushed(rb) == rb.total_pushed
\* RingBuffer::get
ring_get(rb, index) ==
    IF index < Len(rb.lines) THEN Some(rb.lines[index + 1]) ELSE None

\* a push that makes room by dropping the newest line
push_evicts_newest(rb, line) ==
    LET kept == IF Len(rb.lines) >= rb.capacity
                THEN SubSeq(rb.lines, 1, Len(rb.lines) - 1) ELSE rb.lines
    IN  [rb EXCEPT !.lines = Append(kept, line), !.total_pushed = @ + 1]

\* RingBuffer::push: pop_front at capacity, push_back, count
push(rb, line) ==
    LET kept == IF Len(rb.lines) >= rb.capacity THEN Tail(rb.lines) ELSE rb.lines
    IN  [rb EXCEPT !.lines = Append(kept, line), !.total_pushed = @ + 1]

RECURSIVE push_lines(_, _)
\* RingBuffer::push_lines: for line in lines { self.push(line) }
push_lines(rb, lines) ==
    IF lines = << >> THEN rb ELSE push_lines(push(rb, Head(lines)), Tail(lines))

\* RingBuffer::clear
clear(rb) == [rb EXCEPT !.lines = << >>, !.total_pushed = 0]

RECURSIVE pop_front_while_over(_, _)
\* while self.lines.len() > self.capacity { self.lines.pop_front(); }
pop_front_while_over(lines, capacity) ==
    IF Len(lines) > capacity THEN pop_front_while_over(Tail(lines), capacity) ELSE lines

\* a resize that truncates from the back
resize_keeps_oldest(rb, new_capacity) ==
    [rb EXCEPT !.capacity = new_capacity,
               !.lines = IF Len(@) > new_capacity THEN SubSeq(@, 1, new_capacity) ELSE @]

\* RingBuffer::resize(new_capacity), new_capacity != 0
resize(rb, new_capacity) ==
    [rb EXCEPT !.capacity = new_capacity,
               !.lines = pop_front_while_over(@, new_capacity)]

\* no buffer yet
RingIdle == [rb |-> RingBuffer_new(0),  \* capacity 0: not constructed
             pushed |-> << >>,          \* history: the lines pushed, in order
             resized |-> FALSE,         \* history: resize was called
             last |-> [op |-> "none", before |-> RingBuffer_new(0)]]  \* the last call

\* ------------------------------------------------- gbe-buffer: RopeBuffer
\* the UTF-8 encodings of the characters a text is made of: "a" and "é"
RopeChars == {<<97>>, <<195, 169>>}

RECURSIVE Flatten(_)
Flatten(ss) == IF ss = << >> THEN << >> ELSE Head(ss) \o Flatten(Tail(ss))

\* the strings of n characters or less, as bytes
Strings(n) == {Flatten(cs) : cs \in SeqsUpTo(RopeChars, n)}

\* str::is_char_boundary: 0, len, or a byte that is not a continuation byte
is_char_boundary(s, index) ==
    \/ index = 0
    \/ index = Len(s)
    \/ index < Len(s) /\ s[index + 1] \notin 128..191

OutOfBounds(pos) == [variant |-> "OutOfBounds", at |-> <<pos>>]
InvalidRange(start, end) == [variant |-> "InvalidRange", at |-> <<start, end>>]
\* the call panicked (an assertion of the standard library failed)
Panic == [res |-> "Panic"]

\* String::insert_str: asserts that pos is a char boundary
insert_str(s, pos, text) ==
    IF ~is_char_boundary(s, pos) THEN [out |-> Panic, content |-> s]
    ELSE [out |-> Ok(<< >>),
          content |-> SubSeq(s, 1, pos) \o text \o SubSeq(s, pos + 1, Len(s))]

\* String::drain(start..end): asserts that both ends are char boundaries
drain(s, start, end) ==
    IF ~is_char_boundary(s, start) \/ ~is_char_boundary(s, end)
    THEN [out |-> Panic, content |-> s]
    ELSE [out |-> Ok(<< >>), content |-> SubSeq(s, 1, start) \o SubSeq(s, end + 1, Len(s))]

\* RopeBuffer::insert
insert(content, pos, text) ==
    IF pos > Len(content) THEN [out |-> Err(OutOfBounds(pos)), content |-> content]
    ELSE insert_str(content, pos, text)

\* RopeBuffer::delete
delete(content, start, end) ==
    IF start > end THEN [out |-> Err(InvalidRange(start, end)), content |-> content]
    ELSE IF end > Len(content) THEN [out |-> Err(OutOfBounds(end)), content |-> content]
    ELSE drain(content, start, end)

\* RopeBuffer::replace: delete(range)?, insert(range.start, text)?
replace(content, start, end, text) ==
    LET deleted == delete(content, start, end)
    IN  IF deleted.out.res # "Ok" THEN deleted
        ELSE insert(deleted.content, start, text)

\* RopeBuffer::slice: the checks of delete, then &content[range]
slice(content, start, end) ==
    IF start > end THEN [out |-> Err(InvalidRange(start, end)), content |-> content]
    ELSE IF end > Len(content) THEN [out |-> Err(OutOfBounds(end)), content |-> content]
    ELSE IF ~is_char_boundary(content, start) \/ ~is_char_boundary(content, end)
    THEN [out |-> Panic, content |-> content]
    ELSE [out |-> Ok(SubSeq(content, start + 1, end)), content |-> content]

NoCall == [op |-> "none"]

\* no buffer yet
RopeIdle == [st |-> "none",       \* none, live, panicked
             content |-> << >>,   \* RopeBuffer.content, as bytes
             last |-> NoCall,     \* history: the last call, its result, the content before
             prev |-> NoCall]     \* history: the call before it, if it was an insert

\* ------------------------------------- gbe-adapter: the data listener
\* peers that connect to the adapter's data socket: relays spawned for the
\* adapter and a client that was given the direct address
DataPeers == {"relay1", "relay2", "client"}

\* the listener is not bound yet
DataSockIdle ==
    [listener |-> "none",     \* none, bound, dropped
     backlog |-> << >>,       \* peers connected and waiting in the accept queue
     accepted |-> "none",     \* the peer behind handle_data_stream's `stream`
     emitted |-> 0,           \* frames the framer threads have written
     got |-> [p \in DataPeers |-> 0]]   \* frames written to each peer's connection

\* ------------------------------ gbe-adapter: the bytes on the data connection
\* a line of the child, as bytes: "a"
WireLines == {<<97>>}

\* line.into_bytes() + b'\n' for stdout, format!("[stderr] {}", line) + b'\n'
\* for stderr
WirePayload(stream, line) ==
    IF stream = "stdout" THEN line \o <<10>>
    ELSE <<91, 115, 116, 100, 101, 114, 114, 93, 32>> \o line \o <<10>>

\* the longest frame on the wire, in bytes
WireMost == Len(to_bytes(DataFrame(0, WirePayload("stderr", <<97>>))))

\* no data connection yet
WireIdle ==
    [st |-> "none",                             \* none, open
     seq |-> 0,                                 \* the shared AtomicU64
     bytes |-> << >>,                           \* what the peer's socket has received
     pending |-> [s \in Streams |-> << >>],      \* write_all: bytes not yet accepted
     started |-> [s \in Streams |-> FALSE],      \* write_all: a byte was accepted
     short |-> [s \in Streams |-> 0],            \* write_all: short writes so far
     begun |-> << >>]     \* history: the frames, by the time their first byte was accepted

LibIdle ==
    /\ codec = CodecIdle
    /\ ring = RingIdle
    /\ rope = RopeIdle
    /\ data_sock = DataSockIdle
    /\ wire = WireIdle

\* ------------------------------------------------------------------ Init
AdapterInit ==
    [pc |-> "init",          \* main(): init, await_ack, wait_child, exited, failed
     sent |-> << >>,         \* lines written to the router and not yet read by it
     inbox |-> << >>,        \* replies of the router not yet read by the adapter
     tool_id |-> NoId,
     data_addr |-> << >>,
     listener |-> << >>,     \* path the data listener is bound at (<< >>: none)
     backlog |-> << >>,      \* proxies connected to the listener, not yet accepted
     accepted |-> 0,         \* proxy_seq of the peer of the accepted data stream
     child |-> "none",       \* none, running, exited
     exit_status |-> -1,     \* main(): exit_status, what child.wait() returned
     exit_code |-> -1,       \* the exit code of the adapter process (-1: running)
     data |-> "none"]        \* handle_data_stream: none, accept, streaming, done

Init ==
    /\ next_seq = 1
    /\ connections = EmptyMap
    /\ subscriptions = EmptyMap
    /\ proxies = EmptyMap
    /\ pc = [c \in Conns |-> "recv"]
    /\ tool_id = [c \in Conns |-> NoId]
    /\ locals = [c \in Conns |-> NoLocals]
    /\ response = [c \in Conns |-> NoMsg]
    /\ nread = [c \in Conns |-> 0]
    /\ replies = [c \in Conns |-> 0]
    /\ issued = << >>
    /\ unregistered = {}
    /\ subAcks = {}
    /\ unsub_log = {}
    /\ sub_log = << >>
    /\ relays = EmptyMap
    /\ adapter = AdapterInit
    /\ DataIdle
    /\ LibIdle

\* ------------------------------------------------------ lines that arrive
ConnectMsg(caps) == [type |-> "Connect", capabilities |-> caps]
DisconnectMsg == [type |-> "Disconnect"]
EofLine == [type |-> "EOF"]

\* the two ways recv_message fails
RecvErrors == {"read", "parse"}

\* tags the router sends and never expects to receive
RouterTags == {"ConnectAck", "SubscribeAck", "CapabilitiesResponse",
               "ToolsResponse", "Error", "FlowControl"}

\* identities a client can name: every identity handed out so far and one
\* that was never handed out
Targets == {issued[i].id : i \in 1..Len(issued)} \cup {UnknownId}

AdapterGone == adapter.pc \in {"exited", "failed"}

RECURSIVE LinesRead(_)
\* calls of recv_message that have returned on the connections of S
LinesRead(S) == IF S = {} THEN 0
                ELSE LET c == CHOOSE x \in S : TRUE
                     IN  nread[c] + LinesRead(S \ {c})

\* recv_message on c can return line m now
Arrives(c, m) ==
    /\ pc[c] = "recv"
    /\ IF c = AdapterConn
       THEN \/ adapter.sent # << >> /\ Head(adapter.sent) = m
            \/ adapter.sent = << >> /\ AdapterGone /\ m = EofLine
       ELSE LinesRead(Clients) < MaxLines

\* the line leaves the socket
Consume(c) ==
    adapter' = IF c = AdapterConn /\ adapter.sent # << >>
               THEN [adapter EXCEPT !.sent = Tail(@)] ELSE adapter

ErrorMsg(code, target) ==
    [type |-> "Error", code |-> code, message |-> <<"Tool ">> \o target \o <<" not found">>]

\* ------------------------------------------------------- handle_connection
\* Connect arm, first statement: assign_tool_id (fetch_add on next_seq)
RecvConnect(c, caps) ==
    /\ Arrives(c, ConnectMsg(caps))
    /\ next_seq <= MaxSeq
    /\ Consume(c)
    /\ nread' = [nread EXCEPT ![c] = @ + 1]
    /\ replies' = [replies EXCEPT ![c] = 0]
    /\ next_seq' = fetch_add(next_seq)
    /\ issued' = Append(issued, [id |-> FormatToolId(next_seq), conn |-> c,
                                  capabilities |-> caps])
    /\ locals' = [locals EXCEPT ![c] = [arm |-> "Connect", tid |-> FormatToolId(next_seq),
                                        capabilities |-> caps]]
    /\ pc' = [pc EXCEPT ![c] = "register"]
    /\ UNCHANGED <<connections, subscriptions, proxies, tool_id, response, unregistered, subAcks, relays>>
    /\ UNCHANGED <<unsub_log, sub_log, dataVars, libVars>>

\* Connect arm, rest: register_connection, tool_id = Some(tid), ConnectAck
Register(c) ==
    /\ pc[c] = "register"
    /\ ConnectionsLockFree
    /\ LET tid == locals[c].tid
           addr == assign_data_address(tid)
       IN  /\ connections' = MapInsert(connections, tid,
                                [tool_id |-> tid, data_listen_address |-> addr,
                                 capabilities |-> locals[c].capabilities])
           /\ tool_id' = [tool_id EXCEPT ![c] = tid]
           /\ response' = [response EXCEPT ![c] =
                                [type |-> "ConnectAck", tool_id |-> tid,
                                 data_listen_address |-> addr]]
    /\ pc' = [pc EXCEPT ![c] = "send"]
    /\ UNCHANGED <<next_seq, subscriptions, proxies, locals, nread, replies, issued,
                   unregistered, subAcks, relays, adapter>>
    /\ UNCHANGED <<unsub_log, sub_log, dataVars, libVars>>

\* Subscribe arm up to get_connection(&target)
RecvSubscribe(c, target) ==
    /\ Arrives(c, [type |-> "Subscribe", target |-> target])
    /\ Consume(c)
    /\ nread' = [nread EXCEPT ![c] = @ + 1]
    /\ replies' = [replies EXCEPT ![c] = 0]
    /\ IF tool_id[c] = NoId
       THEN \* .context("Subscribe without Connect")? returns Err
            /\ pc' = [pc EXCEPT ![c] = "closed_err"]
            /\ UNCHANGED <<locals, response>>
       ELSE /\ ConnectionsLockFree
            /\ IF get_connection(target) = NoMsg
               THEN /\ response' = [response EXCEPT ![c] = ErrorMsg("NOT_FOUND", target)]
                    /\ locals' = [locals EXCEPT ![c] =
                                    [arm |-> "Subscribe", target |-> target]]
                    /\ pc' = [pc EXCEPT ![c] = "send"]
               ELSE /\ locals' = [locals EXCEPT ![c] =
                                    [arm |-> "Subscribe", target |-> target,
                                     info |-> get_connection(target),
                                     proxy_seq |-> 0, proxy_listen |-> << >>]]
                    /\ pc' = [pc EXCEPT ![c] = "sub_add"]
                    /\ UNCHANGED response
    /\ UNCHANGED <<next_seq, connections, subscriptions, proxies, tool_id, issued, unregistered, subAcks, relays>>
    /\ UNCHANGED <<unsub_log, sub_log, dataVars, libVars>>

\* an add_subscription that leaves out a subscriber the list already holds
SubAdd_skips_listed(c) ==
    /\ pc[c] = "sub_add"
    /\ SubscriptionsLockFree
    /\ LET t == locals[c].target
       IN  subscriptions' = MapInsert(subscriptions, t,
                                IF t \in DOMAIN subscriptions
                                THEN RetainNot(subscriptions[t], tool_id[c]) \o <<tool_id[c]>>
                                ELSE <<tool_id[c]>>)
    /\ pc' = [pc EXCEPT ![c] = "sub_getproxy"]
    /\ UNCHANGED <<next_seq, connections, proxies, tool_id, locals, response, nread,
                   replies, issued, unregistered, subAcks, relays, adapter>>
    /\ sub_log' = Append(sub_log, [target |-> locals[c].target, subscriber |-> tool_id[c]])
    /\ UNCHANGED <<unsub_log, dataVars, libVars>>

\* add_subscription(&target, subscriber); subscriber_count is read for the
\* log line only
SubAdd(c) ==
    /\ pc[c] = "sub_add"
    /\ SubscriptionsLockFree
    /\ LET t == locals[c].target
       IN  subscriptions' = MapInsert(subscriptions, t,
                                IF t \in DOMAIN subscriptions
                                THEN Append(subscriptions[t], tool_id[c])
                                ELSE <<tool_id[c]>>)
    /\ pc' = [pc EXCEPT ![c] = "sub_getproxy"]
    /\ UNCHANGED <<next_seq, connections, proxies, tool_id, locals, response, nread,
                   replies, issued, unregistered, subAcks, relays, adapter>>
    /\ sub_log' = Append(sub_log, [target |-> locals[c].target, subscriber |-> tool_id[c]])
    /\ UNCHANGED <<unsub_log, dataVars, libVars>>

SubscribeAck(addr, caps) ==
    [type |-> "SubscribeAck", data_connect_address |-> addr, capabilities |-> caps]

\* if let Some(proxy_addr) = state.get_proxy_address(&target)
SubGetProxy(c) ==
    /\ pc[c] = "sub_getproxy"
    /\ IF get_proxy_address(locals[c].target) # << >>
       THEN /\ response' = [response EXCEPT ![c] =
                    SubscribeAck(get_proxy_address(locals[c].target),
                                 locals[c].info.capabilities)]
            /\ pc' = [pc EXCEPT ![c] = "send"]
            /\ UNCHANGED locals
       ELSE /\ pc' = [pc EXCEPT ![c] = "sub_spawn"]
            /\ UNCHANGED <<locals, response>>
    /\ UNCHANGED <<next_seq, connections, subscriptions, proxies, tool_id, nread,
                   replies, issued, unregistered, subAcks, relays, adapter>>
    /\ UNCHANGED <<unsub_log, sub_log, dataVars, libVars>>

\* a spawn_proxy whose failure is answered with an Error in place of the
\* direct address
SubSpawn_fails_with_error(c, spawned) ==
    /\ pc[c] = "sub_spawn"
    /\ next_seq <= MaxSeq
    /\ next_seq' = fetch_add(next_seq)
    /\ IF spawned
       THEN /\ relays' = MapInsert(relays, next_seq,
                            [source |-> locals[c].target,
                             upstream |-> locals[c].info.data_listen_address,
                             listen |-> ProxyListenAddress(next_seq),
                             st |-> "started"])
            /\ locals' = [locals EXCEPT ![c].proxy_seq = next_seq,
                                        ![c].proxy_listen = ProxyListenAddress(next_seq)]
            /\ pc' = [pc EXCEPT ![c] = "sub_store"]
            /\ UNCHANGED response
       ELSE /\ relays' = MapInsert(relays, next_seq,
                            [source |-> locals[c].target,
                             upstream |-> locals[c].info.data_listen_address,
                             listen |-> ProxyListenAddress(next_seq),
                             st |-> "unspawned"])
            /\ response' = [response EXCEPT ![c] = ErrorMsg("NOT_FOUND", locals[c].target)]
            /\ pc' = [pc EXCEPT ![c] = "send"]
            /\ UNCHANGED locals
    /\ UNCHANGED <<connections, subscriptions, proxies, tool_id, nread, replies, issued, unregistered, subAcks, adapter>>
    /\ UNCHANGED <<unsub_log, sub_log, dataVars, libVars>>

\* spawn_proxy up to the wait for the socket file: fetch_add, Command::spawn.
\* spawned = FALSE is the Err of Command::spawn, which the caller turns into
\* the direct address
SubSpawn(c, spawned) ==
    /\ pc[c] = "sub_spawn"
    /\ next_seq <= MaxSeq
    /\ next_seq' = fetch_add(next_seq)
    /\ IF spawned
       THEN /\ relays' = MapInsert(relays, next_seq,
                            [source |-> locals[c].target,
                             upstream |-> locals[c].info.data_listen_address,
                             listen |-> ProxyListenAddress(next_seq),
                             st |-> "started"])
            /\ locals' = [locals EXCEPT ![c].proxy_seq = next_seq,
                                        ![c].proxy_listen = ProxyListenAddress(next_seq)]
            /\ pc' = [pc EXCEPT ![c] = "sub_store"]
            /\ UNCHANGED response
       ELSE /\ relays' = MapInsert(relays, next_seq,
                            [source |-> locals[c].target,
                             upstream |-> locals[c].info.data_listen_address,
                             listen |-> ProxyListenAddress(next_seq),
                             st |-> "unspawned"])
            /\ response' = [response EXCEPT ![c] =
                    SubscribeAck(locals[c].info.data_listen_address,
                                 locals[c].info.capabilities)]
            /\ pc' = [pc EXCEPT ![c] = "send"]
            /\ UNCHANGED locals
    /\ UNCHANGED <<connections, subscriptions, proxies, tool_id, nread, replies, issued, unregistered, subAcks, adapter>>
    /\ UNCHANGED <<unsub_log, sub_log, dataVars, libVars>>

\* spawn_proxy after the wait: proxies.insert(source, ProxyInfo), Ok(proxy_listen)
SubStore(c) ==
    /\ pc[c] = "sub_store"
    /\ proxies' = MapInsert(proxies, locals[c].target,
                    [child |-> locals[c].proxy_seq,
                     listen_address |-> locals[c].proxy_listen,
                     source_tool_id |-> locals[c].target])
    /\ response' = [response EXCEPT ![c] =
                    SubscribeAck(locals[c].proxy_listen, locals[c].info.capabilities)]
    /\ pc' = [pc EXCEPT ![c] = "send"]
    /\ UNCHANGED <<next_seq, connections, subscriptions, tool_id, locals, nread, replies,
                   issued, unregistered, subAcks, relays, adapter>>
    /\ UNCHANGED <<unsub_log, sub_log, dataVars, libVars>>

\* an arm that takes the caller out of the target's subscriber list
RecvUnsubscribe_drops_subscriber(c, target) ==
    /\ Arrives(c, [type |-> "Unsubscribe", target |-> target])
    /\ Consume(c)
    /\ nread' = [nread EXCEPT ![c] = @ + 1]
    /\ replies' = [replies EXCEPT ![c] = 0]
    /\ pc' = [pc EXCEPT ![c] = IF tool_id[c] = NoId THEN "closed_err" ELSE "recv"]
    /\ unsub_log' = IF tool_id[c] = NoId THEN unsub_log
                    ELSE unsub_log \cup {[subscriber |-> tool_id[c], target |-> target]}
    /\ subscriptions' =
           IF tool_id[c] # NoId /\ target \in DOMAIN subscriptions
           THEN [subscriptions EXCEPT ![target] = RetainNot(@, tool_id[c])]
           ELSE subscriptions
    /\ UNCHANGED <<next_seq, connections, proxies, tool_id, locals,
                   response, issued, unregistered, subAcks, relays>>
    /\ UNCHANGED <<sub_log, dataVars, libVars>>

\* Unsubscribe arm: the caller must be registered (else the worker ends with
\* an error); the request is logged, no table is touched, response = None
RecvUnsubscribe(c, target) ==
    /\ Arrives(c, [type |-> "Unsubscribe", target |-> target])
    /\ Consume(c)
    /\ nread' = [nread EXCEPT ![c] = @ + 1]
    /\ replies' = [replies EXCEPT ![c] = 0]
    /\ pc' = [pc EXCEPT ![c] = IF tool_id[c] = NoId THEN "closed_err" ELSE "recv"]
    /\ unsub_log' = IF tool_id[c] = NoId THEN unsub_log
                    ELSE unsub_log \cup {[subscriber |-> tool_id[c], target |-> target]}
    /\ UNCHANGED <<next_seq, connections, subscriptions, proxies, tool_id, locals,
                   response, issued, unregistered, subAcks, relays>>
    /\ UNCHANGED <<sub_log, dataVars, libVars>>

\* an arm that looks up the caller's own entry in place of the target's
RecvQueryCapabilities_of_caller(c, target) ==
    /\ Arrives(c, [type |-> "QueryCapabilities", target |-> target])
    /\ ConnectionsLockFree
    /\ Consume(c)
    /\ nread' = [nread EXCEPT ![c] = @ + 1]
    /\ replies' = [replies EXCEPT ![c] = 0]
    /\ response' = [response EXCEPT ![c] =
                        IF get_connection(tool_id[c]) = NoMsg
                        THEN ErrorMsg("NOT_FOUND", target)
                        ELSE [type |-> "CapabilitiesResponse",
                              capabilities |-> get_connection(tool_id[c]).capabilities]]
    /\ locals' = [locals EXCEPT ![c] = [arm |-> "QueryCapabilities", target |-> target]]
    /\ pc' = [pc EXCEPT ![c] = "send"]
    /\ UNCHANGED <<next_seq, connections, subscriptions, proxies, tool_id,
                   issued, unregistered, subAcks, relays>>
    /\ UNCHANGED <<unsub_log, sub_log, dataVars, libVars>>

\* QueryCapabilities arm
RecvQueryCapabilities(c, target) ==
    /\ Arrives(c, [type |-> "QueryCapabilities", target |-> target])
    /\ ConnectionsLockFree
    /\ Consume(c)
    /\ nread' = [nread EXCEPT ![c] = @ + 1]
    /\ replies' = [replies EXCEPT ![c] = 0]
    /\ response' = [response EXCEPT ![c] =
                        IF get_connection(target) = NoMsg
                        THEN ErrorMsg("NOT_FOUND", target)
                        ELSE [type |-> "CapabilitiesResponse",
                              capabilities |-> get_connection(target).capabilities]]
    /\ locals' = [locals EXCEPT ![c] = [arm |-> "QueryCapabilities", target |-> target]]
    /\ pc' = [pc EXCEPT ![c] = "send"]
    /\ UNCHANGED <<next_seq, connections, subscriptions, proxies, tool_id,
                   issued, unregistered, subAcks, relays>>
    /\ UNCHANGED <<unsub_log, sub_log, dataVars, libVars>>

\* QueryTools arm
RecvQueryTools(c, order) ==
    /\ Arrives(c, [type |-> "QueryTools"])
    /\ ConnectionsLockFree
    /\ Consume(c)
    /\ nread' = [nread EXCEPT ![c] = @ + 1]
    /\ replies' = [replies EXCEPT ![c] = 0]
    /\ response' = [response EXCEPT ![c] = [type |-> "ToolsResponse", tools |-> list_tools(order)]]
    /\ locals' = [locals EXCEPT ![c] = [arm |-> "QueryTools"]]
    /\ pc' = [pc EXCEPT ![c] = "send"]
    /\ UNCHANGED <<next_seq, connections, subscriptions, proxies, tool_id,
                   issued, unregistered, subAcks, relays>>
    /\ UNCHANGED <<unsub_log, sub_log, dataVars, libVars>>

\* unregister_connection, first statement: conns.remove(tool_id), taken with
\* the connections mutex, which stays held
UnregisterStart(c) ==
    IF tool_id[c] = NoId
    THEN /\ pc' = [pc EXCEPT ![c] = "closed_ok"]
         /\ UNCHANGED connections
    ELSE /\ ConnectionsLockFree
         /\ connections' = MapRemove(connections, tool_id[c])
         /\ pc' = [pc EXCEPT ![c] = "unreg_subs"]

\* Disconnect arm
RecvDisconnect(c) ==
    /\ Arrives(c, DisconnectMsg)
    /\ Consume(c)
    /\ nread' = [nread EXCEPT ![c] = @ + 1]
    /\ replies' = [replies EXCEPT ![c] = 0]
    /\ UnregisterStart(c)
    /\ UNCHANGED <<next_seq, subscriptions, proxies, tool_id, locals, response,
                   issued, unregistered, subAcks, relays>>
    /\ UNCHANGED <<unsub_log, sub_log, dataVars, libVars>>

\* recv_message returned Ok(None): connection closed
RecvEof(c) ==
    /\ Arrives(c, EofLine)
    /\ Consume(c)
    /\ nread' = [nread EXCEPT ![c] = @ + 1]
    /\ replies' = [replies EXCEPT ![c] = 0]
    /\ UnregisterStart(c)
    /\ UNCHANGED <<next_seq, subscriptions, proxies, tool_id, locals, response,
                   issued, unregistered, subAcks, relays>>
    /\ UNCHANGED <<unsub_log, sub_log, dataVars, libVars>>

\* an unregister_connection that locks the registry a second time (through
\* get_connection, say) while its own guard is alive
UnregSubs_relocks_registry(c) ==
    /\ pc[c] = "unreg_subs"
    /\ ConnectionsLockFree
    /\ subscriptions' = ScrubSubscriptions(subscriptions, tool_id[c])
    /\ pc' = [pc EXCEPT ![c] = "unreg_proxies"]
    /\ UNCHANGED <<next_seq, connections, proxies, tool_id, locals, response, nread,
                   replies, issued, unregistered, subAcks, relays, adapter>>
    /\ UNCHANGED <<unsub_log, sub_log, dataVars, libVars>>

\* unregister_connection: subs.retain(..); subs.remove(tool_id)
UnregSubs(c) ==
    /\ pc[c] = "unreg_subs"
    /\ subscriptions' = ScrubSubscriptions(subscriptions, tool_id[c])
    /\ pc' = [pc EXCEPT ![c] = "unreg_proxies"]
    /\ UNCHANGED <<next_seq, connections, proxies, tool_id, locals, response, nread,
                   replies, issued, unregistered, subAcks, relays, adapter>>
    /\ UNCHANGED <<unsub_log, sub_log, dataVars, libVars>>

\* unregister_connection: proxies.remove(tool_id), return (all guards dropped)
UnregProxies(c) ==
    /\ pc[c] = "unreg_proxies"
    /\ proxies' = MapRemove(proxies, tool_id[c])
    /\ unregistered' = unregistered \cup {tool_id[c]}
    /\ pc' = [pc EXCEPT ![c] = "closed_ok"]
    /\ UNCHANGED <<next_seq, connections, subscriptions, tool_id, locals, response,
                   nread, replies, issued, subAcks, relays, adapter>>
    /\ UNCHANGED <<unsub_log, sub_log, dataVars, libVars>>

\* the arm for tags the router itself sends: warn, response = None
RecvUnexpected(c, tag) ==
    /\ Arrives(c, [type |-> tag])
    /\ Consume(c)
    /\ nread' = [nread EXCEPT ![c] = @ + 1]
    /\ replies' = [replies EXCEPT ![c] = 0]
    /\ UNCHANGED <<next_seq, connections, subscriptions, proxies, pc, tool_id, locals,
                   response, issued, unregistered, subAcks, relays>>
    /\ UNCHANGED <<unsub_log, sub_log, dataVars, libVars>>

\* an error that is propagated out of the worker thread and ends the process
RecvError_ends_broker(c, cause) ==
    /\ Arrives(c, [type |-> "Err", cause |-> cause])
    /\ Consume(c)
    /\ nread' = [nread EXCEPT ![c] = @ + 1]
    /\ replies' = [replies EXCEPT ![c] = 0]
    /\ pc' = [d \in Conns |-> "closed_err"]
    /\ UNCHANGED <<next_seq, connections, subscriptions, proxies, tool_id, locals,
                   response, issued, unregistered, subAcks, relays>>
    /\ UNCHANGED <<unsub_log, sub_log, dataVars, libVars>>

\* recv_message returned Err: read_line failed ("read"), or serde_json could
\* not parse the line ("parse"); the ? returns from handle_connection
RecvError(c, cause) ==
    /\ Arrives(c, [type |-> "Err", cause |-> cause])
    /\ Consume(c)
    /\ nread' = [nread EXCEPT ![c] = @ + 1]
    /\ replies' = [replies EXCEPT ![c] = 0]
    /\ pc' = [pc EXCEPT ![c] = "closed_err"]
    /\ UNCHANGED <<next_seq, connections, subscriptions, proxies, tool_id, locals,
                   response, issued, unregistered, subAcks, relays>>
    /\ UNCHANGED <<unsub_log, sub_log, dataVars, libVars>>

\* a reply that is written and left in `response`, so that it is still
\* pending when the next line is read
Send_keeps_response(c) ==
    /\ pc[c] = "send"
    /\ replies' = [replies EXCEPT ![c] = @ + 1]
    /\ adapter' = IF c = AdapterConn
                  THEN [adapter EXCEPT !.inbox = Append(@, response[c])]
                  ELSE adapter
    /\ pc' = [pc EXCEPT ![c] = "recv"]
    /\ UNCHANGED <<next_seq, connections, subscriptions, proxies, tool_id, locals, response,
                   nread, issued, unregistered, subAcks, relays>>
    /\ UNCHANGED <<unsub_log, sub_log, dataVars, libVars>>

\* conn.send_message(&resp) returned Ok
Send(c) ==
    /\ pc[c] = "send"
    /\ replies' = [replies EXCEPT ![c] = @ + 1]
    /\ adapter' = IF c = AdapterConn
                  THEN [adapter EXCEPT !.inbox = Append(@, response[c])]
                  ELSE adapter
    /\ subAcks' = IF response[c].type = "SubscribeAck"
                   THEN subAcks \cup {[target |-> locals[c].target,
                                       subscriber |-> tool_id[c],
                                       address |-> response[c].data_connect_address]}
                   ELSE subAcks
    /\ response' = [response EXCEPT ![c] = NoMsg]
    /\ locals' = [locals EXCEPT ![c] = NoLocals]
    /\ pc' = [pc EXCEPT ![c] = "recv"]
    /\ UNCHANGED <<next_seq, connections, subscriptions, proxies, tool_id,
                   nread, issued, unregistered, relays>>
    /\ UNCHANGED <<unsub_log, sub_log, dataVars, libVars>>

\* conn.send_message(&resp) returned Err (the peer has closed its socket):
\* the ? returns from handle_connection
SendFail(c) ==
    /\ pc[c] = "send"
    /\ c = AdapterConn => AdapterGone
    /\ response' = [response EXCEPT ![c] = NoMsg]
    /\ locals' = [locals EXCEPT ![c] = NoLocals]
    /\ pc' = [pc EXCEPT ![c] = "closed_err"]
    /\ UNCHANGED <<next_seq, connections, subscriptions, proxies, tool_id,
                   nread, replies, issued, unregistered, subAcks, relays, adapter>>
    /\ UNCHANGED <<unsub_log, sub_log, dataVars, libVars>>

\* ------------------------------------------------------------- gbe-adapter
\* main(): RouterConnection::connect, send Connect { capabilities: vec![] }
AdapterStart ==
    /\ adapter.pc = "init"
    /\ adapter' = [adapter EXCEPT !.pc = "await_ack", !.sent = Append(@, ConnectMsg(<< >>))]
    /\ UNCHANGED <<routerVars, workerVars, historyVars, relays>>
    /\ UNCHANGED <<dataVars, libVars>>

\* main(): router_conn.recv() up to thread::spawn(handle_data_stream).
\* started = FALSE is an Err of UnixListener::bind or Command::spawn
AdapterRecvAck(started) ==
    /\ adapter.pc = "await_ack"
    /\ adapter.inbox # << >>
    /\ LET ack == Head(adapter.inbox)
       IN  IF ack.type = "ConnectAck" /\ strip_prefix(ack.data_listen_address) # << >> /\ started
           THEN adapter' = [adapter EXCEPT !.pc = "wait_child",
                                           !.inbox = Tail(@),
                                           !.tool_id = ack.tool_id,
                                           !.data_addr = ack.data_listen_address,
                                           !.listener = strip_prefix(ack.data_listen_address),
                                           !.child = "running",
                                           !.data = "accept"]
           ELSE adapter' = [adapter EXCEPT !.pc = "failed", !.inbox = Tail(@),
                                           !.exit_code = 1]
    /\ UNCHANGED <<routerVars, workerVars, historyVars, relays>>
    /\ UNCHANGED <<dataVars, libVars>>

\* the wrapped command terminates with an exit code; its ends of the pipes close
ChildExit(code) ==
    /\ adapter.child = "running"
    /\ adapter' = [adapter EXCEPT !.child = "exited", !.exit_status = code]
    /\ UNCHANGED <<routerVars, workerVars, historyVars, relays>>
    /\ UNCHANGED <<dataVars, libVars>>

\* handle_data_stream: listener.accept() returns the first connection
DataAccept ==
    /\ adapter.data = "accept"
    /\ adapter.backlog # << >>
    /\ adapter' = [adapter EXCEPT !.data = "streaming",
                                  !.accepted = Head(adapter.backlog),
                                  !.backlog = Tail(@)]
    /\ UNCHANGED <<routerVars, workerVars, historyVars, relays>>
    /\ UNCHANGED <<dataVars, libVars>>

\* handle_data_stream: both framer threads have left their loops (EOF on the
\* child's pipes, or a failed write to a peer that is gone) and are joined
DataStreamDone ==
    /\ adapter.data = "streaming"
    /\ adapter.child = "exited" \/ relays[adapter.accepted].st = "exited"
    /\ adapter' = [adapter EXCEPT !.data = "done", !.listener = << >>]
    /\ UNCHANGED <<routerVars, workerVars, historyVars, relays>>
    /\ UNCHANGED <<dataVars, libVars>>

\* main(): child.wait(), data_thread.join(), send Disconnect, remove_file,
\* Ok(()): the process exits with code 0
AdapterFinish ==
    /\ adapter.pc = "wait_child"
    /\ adapter.child = "exited"
    /\ adapter.data = "done"
    /\ adapter' = [adapter EXCEPT !.pc = "exited", !.sent = Append(@, DisconnectMsg),
                                  !.exit_code = 0]
    /\ UNCHANGED <<routerVars, workerVars, historyVars, relays>>
    /\ UNCHANGED <<dataVars, libVars>>

\* --------------------------------------------------------------- gbe-proxy
\* the listener of the data socket behind an upstream address is bound
UpstreamListening(addr) ==
    adapter.listener # << >> /\ adapter.listener = strip_prefix(addr) /\ ~AdapterGone

\* the source of proxy j is the identity the router gave to the adapter
AdapterIsSource(j) ==
    \E i \in 1..Len(issued) : issued[i].conn = AdapterConn /\ issued[i].id = relays[j].source

\* main(): UnixListener::bind, UnixStream::connect(upstream_path).  The data
\* socket of a tool other than the adapter is bound or not as its peer chose
RelayStart(j, bound) ==
    /\ j \in DOMAIN relays
    /\ relays[j].st = "started"
    /\ AdapterIsSource(j) => bound = UpstreamListening(relays[j].upstream)
    /\ relays' = [relays EXCEPT ![j].st = IF bound THEN "running" ELSE "exited"]
    /\ adapter' = IF bound /\ AdapterIsSource(j)
                  THEN [adapter EXCEPT !.backlog = Append(@, j)]
                  ELSE adapter
    /\ UNCHANGED <<routerVars, workerVars, historyVars>>
    /\ UNCHANGED <<dataVars, libVars>>

\* relay loop: read_from returned Err (EOF, idle timeout, I/O error): break.
\* Whether a downstream is connected, so that the loop reads at all, is the
\* consumers' choice
RelayExit(j) ==
    /\ j \in DOMAIN relays
    /\ relays[j].st = "running"
    /\ relays' = [relays EXCEPT ![j].st = "exited"]
    /\ UNCHANGED <<routerVars, workerVars, historyVars, adapter>>
    /\ UNCHANGED <<dataVars, libVars>>

\* ------------------------------------------------------------ steps
\* the steps a worker takes without waiting for its peer
WorkerStep(c) ==
    \/ Register(c)
    \/ SubAdd(c)
    \/ SubGetProxy(c)
    \/ \E spawned \in BOOLEAN : SubSpawn(c, spawned)
    \/ SubStore(c)
    \/ UnregSubs(c)
    \/ UnregProxies(c)
    \/ Send(c)
    \/ SendFail(c)

\* a line (or the end of the stream) is read from a control connection
RecvStep(c) ==
    \/ \E caps \in CapSets(c) : RecvConnect(c, caps)
    \/ \E t \in Targets : RecvSubscribe(c, t)
    \/ \E t \in Targets : RecvUnsubscribe(c, t)
    \/ \E t \in Targets : RecvQueryCapabilities(c, t)
    \/ \E order \in IterOrders(connections) : RecvQueryTools(c, order)
    \/ RecvDisconnect(c)
    \/ \E tag \in RouterTags : RecvUnexpected(c, tag)
    \/ RecvEof(c)
    \/ \E cause \in RecvErrors : RecvError(c, cause)

AdapterStep ==
    \/ AdapterStart
    \/ \E started \in BOOLEAN : AdapterRecvAck(started)
    \/ DataAccept
    \/ DataStreamDone
    \/ AdapterFinish

RelayStep ==
    \/ \E j \in 1..MaxSeq, bound \in BOOLEAN : RelayStart(j, bound)
    \/ \E j \in 1..MaxSeq : RelayExit(j)

\* ------------------------------------------------------------ the router
\* The router with arbitrary peers on the client connections (whatever the
\* adapter writes on its control connection, an arbitrary peer writes too).
\* The proxies it spawns run on their own: the router never looks at them
\* again, and their steps are taken with the adapter's below.
Next ==
    \/ \E c \in Clients : RecvStep(c)
    \/ \E c \in Clients : WorkerStep(c)

Spec == Init /\ [][Next]_vars

\* The router with peers that send only the messages whose handlers lock a
\* table mutex in a step of their own (Connect, Subscribe, Disconnect), and
\* every worker thread scheduled: a worker that can take a step (its mutex
\* is free, its reply can be written) eventually takes one.
LockNext ==
    \/ \E c \in Clients : \E caps \in CapSets(c) : RecvConnect(c, caps)
    \/ \E c \in Clients : \E t \in Targets : RecvSubscribe(c, t)
    \/ \E c \in Clients : RecvDisconnect(c)
    \/ \E c \in Clients : WorkerStep(c)

LockFairSpec ==
    /\ Init /\ [][LockNext]_vars
    /\ \A c \in Clients : WF_vars(WorkerStep(c))

\* ------------------------------------------- the router and one adapter
\* The adapter process on its own control connection, one arbitrary client
\* (a consumer), the router and the proxies.
AdapterNext ==
    \/ \E c \in {AdapterConn, Consumer} : RecvStep(c)
    \/ \E c \in {AdapterConn, Consumer} : WorkerStep(c)
    \/ AdapterStep
    \/ \E code \in ExitCodes : ChildExit(code)
    \/ RelayStep

AdapterSpec == Init /\ [][AdapterNext]_vars

\* Threads and processes are scheduled by the OS and a step that can be
\* taken is eventually taken; what the peers of the control connections send,
\* when the child exits, and when a proxy's read gives up, is not promised.
FairSpec ==
    /\ AdapterSpec
    /\ \A c \in {AdapterConn, Consumer} : WF_vars(WorkerStep(c))
    /\ WF_vars(RecvStep(AdapterConn))
    /\ WF_vars(AdapterStep)
    /\ WF_vars(\E j \in 1..MaxSeq, bound \in BOOLEAN : RelayStart(j, bound))

\* ============================================================ the data path
\* One adapter, the proxy the router spawned for it, and the viewers that
\* connect to the proxy's listen address.  The router's tables play no part
\* once the proxy is spawned.

\* ---------------------------------------------------- adapter, data side
\* main(): UnixListener::bind, Command::spawn, thread::spawn(handle_data_stream),
\* which blocks in listener.accept()
AdapterSpawnChild ==
    /\ upstream.st = "none"
    /\ upstream' = [upstream EXCEPT !.st = "listening"]
    /\ child_io' = [child_io EXCEPT !.st = "running"]
    /\ UNCHANGED <<seq, framers, proxyDataVars, viewerVars, dataHistoryVars, routerSide, libVars>>

\* the wrapped command writes its next line to one of its pipes
ChildEcho(s) ==
    /\ child_io.st = "running"
    /\ child_io.written < MaxOut
    /\ child_io' = [child_io EXCEPT !.written = @ + 1,
                                    !.to_stderr = IF s = "stderr" THEN @ + 1 ELSE @,
                                    ![s] = Append(@, Digits(child_io.written + 1))]
    /\ UNCHANGED <<seq, framers, upstream, proxyDataVars, viewerVars, dataHistoryVars, routerSide, libVars>>

\* the wrapped command terminates; its ends of the pipes close
ChildDone ==
    /\ child_io.st = "running"
    /\ child_io' = [child_io EXCEPT !.st = "exited"]
    /\ UNCHANGED <<seq, framers, upstream, proxyDataVars, viewerVars, dataHistoryVars, routerSide, libVars>>

\* handle_data_stream: listener.accept() returns, try_clone, both framer
\* threads are spawned
DataStreamAccept ==
    /\ upstream.st = "connecting"
    /\ upstream' = [upstream EXCEPT !.st = "open"]
    /\ framers' = [s \in Streams |-> [pc |-> "lines", frame |-> NoFrame]]
    /\ UNCHANGED <<seq, child_io, proxyDataVars, viewerVars, dataHistoryVars, routerSide, libVars>>

\* a framer thread: reader.lines() yields a line, the frame is built with
\* seq.fetch_add(1, SeqCst); at EOF of the pipe the loop ends
FramerLines(s) ==
    /\ framers[s].pc = "lines"
    /\ IF child_io[s] # << >>
       THEN /\ framers' = [framers EXCEPT ![s] =
                             [pc |-> "write",
                              frame |-> DataFrame(seq, FramePayload(s, Head(child_io[s])))]]
            /\ seq' = fetch_add(seq)
            /\ child_io' = [child_io EXCEPT ![s] = Tail(@)]
       ELSE /\ child_io.st = "exited"
            /\ framers' = [framers EXCEPT ![s] = [pc |-> "done", frame |-> NoFrame]]
            /\ UNCHANGED <<seq, child_io>>
    /\ UNCHANGED <<upstream, proxyDataVars, viewerVars, dataHistoryVars, routerSide, libVars>>

\* a framer thread: frame.write_to(&mut conn); an Err (the proxy has exited)
\* is logged and breaks the loop
FramerWrite(s) ==
    /\ framers[s].pc = "write"
    /\ IF proxy.pc = "exited"
       THEN /\ framers' = [framers EXCEPT ![s] = [pc |-> "done", frame |-> NoFrame]]
            /\ UNCHANGED upstream
       ELSE /\ upstream' = [upstream EXCEPT !.wire = Append(@, framers[s].frame)]
            /\ framers' = [framers EXCEPT ![s] = [pc |-> "lines", frame |-> NoFrame]]
    /\ UNCHANGED <<seq, child_io, proxyDataVars, viewerVars, dataHistoryVars, routerSide, libVars>>

\* both framer threads have ended and dropped their clones of the stream:
\* the adapter's end of the data connection is closed
UpstreamEof ==
    /\ upstream.st = "open"
    /\ \A s \in Streams : framers[s].pc = "done"

\* ------------------------------------------------------ gbe-proxy, data side
\* spawn_proxy: Command::new(proxy_bin) ... spawn()
ProxySpawned ==
    /\ proxy.pc = "none"
    /\ proxy' = [proxy EXCEPT !.pc = "spawned"]
    /\ UNCHANGED <<adapterDataVars, downstreams, next_id, incoming, viewerVars,
                   dataHistoryVars, routerSide, libVars>>

ProxyAlive == proxy.pc \in {"loop", "read", "broadcast"}

\* main(): UnixListener::bind, UnixStream::connect(upstream_path) (its Err
\* returns from main), thread::spawn of the accept loop
ProxyStart ==
    /\ proxy.pc = "spawned"
    /\ IF upstream.st = "listening"
       THEN /\ upstream' = [upstream EXCEPT !.st = "connecting"]
            /\ proxy' = [proxy EXCEPT !.pc = "loop"]
       ELSE /\ proxy' = [proxy EXCEPT !.pc = "exited"]
            /\ UNCHANGED upstream
    /\ UNCHANGED <<seq, child_io, framers, downstreams, next_id, incoming, viewerVars,
                   dataHistoryVars, routerSide, libVars>>

\* ProxyState::downstream_count
downstream_count == Cardinality(DOMAIN downstreams)

\* ProxyState::add_downstream: the id is taken from next_id, the writer is
\* inserted
add_downstream(v) == MapInsert(downstreams, next_id, v)

\* an insert that also hands the newcomer the frame broadcast last
AcceptDownstream_replays_last ==
    /\ ProxyAlive
    /\ incoming # << >>
    /\ downstreams' = add_downstream(Head(incoming))
    /\ next_id' = next_id + 1
    /\ incoming' = Tail(incoming)
    /\ sent' = IF bcast = << >> THEN sent
               ELSE [sent EXCEPT ![Head(incoming)] = Append(@, bcast[Len(bcast)])]
    /\ joined' = MapInsert(joined, Head(incoming),
                           [bcast |-> Len(bcast), read |-> upstream.nread])
    /\ UNCHANGED <<adapterDataVars, proxy, viewers, bcast, evicted, early, routerSide, libVars>>

\* the accept thread: listener.incoming() yields a stream, add_downstream
AcceptDownstream ==
    /\ ProxyAlive
    /\ incoming # << >>
    /\ downstreams' = add_downstream(Head(incoming))
    /\ next_id' = next_id + 1
    /\ incoming' = Tail(incoming)
    /\ joined' = MapInsert(joined, Head(incoming),
                           [bcast |-> Len(bcast), read |-> upstream.nread])
    /\ UNCHANGED <<adapterDataVars, proxy, viewerVars, bcast, evicted, early, routerSide, libVars>>

\* a loop head that goes on to read whatever the map holds
RelayCheck_no_wait ==
    /\ proxy.pc = "loop"
    /\ proxy' = [proxy EXCEPT !.pc = "read"]
    /\ UNCHANGED <<adapterDataVars, downstreams, next_id, incoming, viewerVars,
                   dataHistoryVars, routerSide, libVars>>

\* relay loop head: if downstream_count() == 0 { sleep(500ms); continue }
RelayCheck ==
    /\ proxy.pc = "loop"
    /\ proxy' = IF downstream_count = 0 THEN proxy ELSE [proxy EXCEPT !.pc = "read"]
    /\ UNCHANGED <<adapterDataVars, downstreams, next_id, incoming, viewerVars,
                   dataHistoryVars, routerSide, libVars>>

\* a reader rebuilt for every read, which loses the frame the previous one
\* had buffered
RelayRead_loses_buffered ==
    /\ proxy.pc = "read"
    /\ upstream.nread < Len(upstream.wire)
    /\ LET k == IF upstream.nread + 2 <= Len(upstream.wire)
                THEN upstream.nread + 2 ELSE upstream.nread + 1
       IN  /\ proxy' = [pc |-> "broadcast", frame |-> upstream.wire[k]]
           /\ upstream' = [upstream EXCEPT !.nread = k]
    /\ UNCHANGED <<seq, child_io, framers, downstreams, next_id, incoming, viewerVars,
                   dataHistoryVars, routerSide, libVars>>

\* relay loop: DataFrame::read_from(&mut reader) returns Ok(frame)
RelayRead ==
    /\ proxy.pc = "read"
    /\ upstream.nread < Len(upstream.wire)
    /\ proxy' = [pc |-> "broadcast", frame |-> upstream.wire[upstream.nread + 1]]
    /\ upstream' = [upstream EXCEPT !.nread = @ + 1]
    /\ UNCHANGED <<seq, child_io, framers, downstreams, next_id, incoming, viewerVars,
                   dataHistoryVars, routerSide, libVars>>

\* relay loop: read_from returns Err: the adapter closed the stream ("eof"),
\* or nothing arrived for 30 s ("timeout"); break
RelayReadErr(cause) ==
    /\ proxy.pc = "read"
    /\ upstream.nread = Len(upstream.wire)
    /\ cause = "eof" <=> UpstreamEof
    /\ proxy' = [proxy EXCEPT !.pc = "exited"]
    /\ UNCHANGED <<adapterDataVars, downstreams, next_id, incoming, viewerVars,
                   dataHistoryVars, routerSide, libVars>>

RECURSIVE WriteAll(_, _, _)
\* the for loop of broadcast_frame over the writers in iteration order:
\* write_to and flush fail on a connection its viewer has closed
WriteAll(order, frame, acc) ==
    IF order = << >> THEN acc
    ELSE LET id == Head(order)
             v == downstreams[id]
         IN  IF viewers[v] = "closed"
             THEN WriteAll(Tail(order), frame,
                           [acc EXCEPT !.failed_ids = Append(@, id)])
             ELSE WriteAll(Tail(order), frame,
                           [acc EXCEPT !.sent[v] = Append(@, frame)])

RECURSIVE WriteUntilError(_, _, _)
\* a loop that returns at the first failed write
WriteUntilError(order, frame, acc) ==
    IF order = << >> THEN acc
    ELSE LET id == Head(order)
             v == downstreams[id]
         IN  IF viewers[v] = "closed"
             THEN [acc EXCEPT !.failed_ids = Append(@, id)]
             ELSE WriteUntilError(Tail(order), frame,
                                  [acc EXCEPT !.sent[v] = Append(@, frame)])

\* broadcast_frame with the early return
broadcast_frame_returns_on_error(order, frame) ==
    WriteUntilError(order, frame, [sent |-> sent, failed_ids |-> << >>])

\* ProxyState::broadcast_frame, up to the removal of the failed ids
broadcast_frame(order, frame) ==
    WriteAll(order, frame, [sent |-> sent, failed_ids |-> << >>])

\* relay loop: state.broadcast_frame(&frame), under the downstreams mutex
\* from the first write to the last removal
Broadcast(order) ==
    /\ proxy.pc = "broadcast"
    /\ LET r == broadcast_frame(order, proxy.frame)
           failed == {r.failed_ids[i] : i \in 1..Len(r.failed_ids)}
       IN  /\ sent' = r.sent
           /\ downstreams' = [id \in (DOMAIN downstreams) \ failed |-> downstreams[id]]
           /\ evicted' = evicted \cup {downstreams[id] : id \in failed}
    /\ bcast' = Append(bcast, proxy.frame)
    /\ proxy' = [pc |-> "loop", frame |-> NoFrame]
    /\ UNCHANGED <<adapterDataVars, next_id, incoming, viewers, joined, early, routerSide, libVars>>

\* ------------------------------------------------------------------ viewers
\* a viewer connects to the proxy's listen address (UnixStream::connect)
ViewerConnect(v) ==
    /\ viewers[v] = "idle"
    /\ ProxyAlive
    /\ viewers' = [viewers EXCEPT ![v] = "connected"]
    /\ incoming' = Append(incoming, v)
    /\ early' = IF bcast = << >> THEN early \cup {v} ELSE early
    /\ UNCHANGED <<adapterDataVars, proxy, downstreams, next_id, sent, bcast, joined,
                   evicted, routerSide, libVars>>

\* a viewer closes its data connection
ViewerClose(v) ==
    /\ viewers[v] = "connected"
    /\ viewers' = [viewers EXCEPT ![v] = "closed"]
    /\ UNCHANGED <<adapterDataVars, proxyDataVars, sent, dataHistoryVars, routerSide, libVars>>

\* ------------------------------------------------------------------- steps
FramerStep == \E s \in Streams : FramerLines(s) \/ FramerWrite(s)

ProxyMainStep ==
    \/ ProxyStart
    \/ RelayCheck
    \/ RelayRead
    \/ RelayReadErr("eof")
    \/ \E order \in IterOrders(downstreams) : Broadcast(order)

DataNext ==
    \/ AdapterSpawnChild
    \/ \E s \in Streams : ChildEcho(s)
    \/ ChildDone
    \/ DataStreamAccept
    \/ FramerStep
    \/ ProxySpawned
    \/ ProxyMainStep
    \/ RelayReadErr("timeout")
    \/ AcceptDownstream
    \/ \E v \in Viewers : ViewerConnect(v)
    \/ \E v \in Viewers : ViewerClose(v)

DataSpec == Init /\ [][DataNext]_vars

\* Every thread of the adapter and of the proxy is scheduled by the OS and a
\* step it can take is eventually taken.  What the wrapped command writes,
\* when it exits, whether a viewer connects or closes, and whether the
\* upstream stays idle for 30 s, is not promised.
DataFairSpec ==
    /\ DataSpec
    /\ WF_vars(DataStreamAccept)
    /\ WF_vars(FramerStep)
    /\ WF_vars(ProxyMainStep)
    /\ WF_vars(AcceptDownstream)

\* ------------------------------------------- gbe-protocol: frames in a buffer
\* a writer opens a buffer; its frames are numbered from base
CodecNew(base) ==
    /\ codec.pc = "none"
    /\ codec' = [CodecIdle EXCEPT !.pc = "writing", !.next_seq = base]
    /\ UNCHANGED <<ring, rope, data_sock, wire, routerSide, dataVars>>

\* DataFrame::new(seq, payload).write_to(&mut buffer): write_all(&to_bytes())
CodecWrite(payload) ==
    /\ codec.pc = "writing"
    /\ Len(codec.written) < MaxFrames
    /\ LET frame == DataFrame(codec.next_seq, payload)
       IN  codec' = [codec EXCEPT !.buf = @ \o to_bytes(frame),
                                  !.next_seq = @ + 1,
                                  !.written = Append(@, frame),
                                  !.round = from_bytes(to_bytes(frame))]
    /\ UNCHANGED <<ring, rope, data_sock, wire, routerSide, dataVars>>

\* the writer goes away with the last n bytes of its last frame unsent
CodecCut(n) ==
    /\ codec.pc = "writing"
    /\ codec.written # << >>
    /\ n \in 1..Len(to_bytes(codec.written[Len(codec.written)]))
    /\ codec' = [codec EXCEPT !.buf = SubSeq(@, 1, Len(@) - n), !.lost = n,
                              !.pc = "reading"]
    /\ UNCHANGED <<ring, rope, data_sock, wire, routerSide, dataVars>>

\* the writer closes its end after a whole frame (or before the first)
CodecClose ==
    /\ codec.pc = "writing"
    /\ codec' = [codec EXCEPT !.pc = "reading"]
    /\ UNCHANGED <<ring, rope, data_sock, wire, routerSide, dataVars>>

\* DataFrame::read_from(&mut cursor); the reader stops at the first error
CodecRead ==
    /\ codec.pc = "reading"
    /\ LET r == read_from(codec.buf, codec.pos)
       IN  codec' = [codec EXCEPT
                        !.pos = r.pos,
                        !.reads = Append(@, [avail |-> Len(codec.buf) - codec.pos,
                                             result |-> r.result, pos |-> r.pos]),
                        !.pc = IF r.result.res = "Ok" THEN "reading" ELSE "done"]
    /\ UNCHANGED <<ring, rope, data_sock, wire, routerSide, dataVars>>

CodecNext ==
    \/ \E base \in SeqBases : CodecNew(base)
    \/ \E payload \in Payloads : CodecWrite(payload)
    \/ \E n \in 1..(12 + MaxPayload) : CodecCut(n)
    \/ CodecClose
    \/ CodecRead

CodecSpec == Init /\ [][CodecNext]_vars

\* ------------------------------------------------- gbe-buffer: RingBuffer
\* RingBuffer::new(capacity)
RingNew(capacity) ==
    /\ ring.rb.capacity = 0
    /\ ring' = [RingIdle EXCEPT !.rb = RingBuffer_new(capacity),
                                !.last = [op |-> "new", before |-> ring.rb]]
    /\ UNCHANGED <<codec, rope, data_sock, wire, routerSide, dataVars>>

\* buf.push(line)
RingPush(line) ==
    /\ ring.rb.capacity > 0
    /\ Len(ring.pushed) < MaxPushes
    /\ ring' = [ring EXCEPT !.rb = push(ring.rb, line),
                            !.pushed = Append(ring.pushed, line),
                            !.last = [op |-> "push", before |-> ring.rb]]
    /\ UNCHANGED <<codec, rope, data_sock, wire, routerSide, dataVars>>

\* buf.push_lines(lines)
RingPushLines(lines) ==
    /\ ring.rb.capacity > 0
    /\ Len(ring.pushed) + Len(lines) <= MaxPushes
    /\ ring' = [ring EXCEPT !.rb = push_lines(ring.rb, lines),
                            !.pushed = ring.pushed \o lines,
                            !.last = [op |-> "push_lines", before |-> ring.rb]]
    /\ UNCHANGED <<codec, rope, data_sock, wire, routerSide, dataVars>>

\* buf.resize(new_capacity)
RingResize(new_capacity) ==
    /\ ring.rb.capacity > 0
    /\ ring' = [ring EXCEPT !.rb = resize(ring.rb, new_capacity),
                            !.resized = TRUE,
                            !.last = [op |-> "resize", before |-> ring.rb]]
    /\ UNCHANGED <<codec, rope, data_sock, wire, routerSide, dataVars>>

\* buf.clear()
RingClear ==
    /\ ring.rb.capacity > 0
    /\ ring' = [ring EXCEPT !.rb = clear(ring.rb),
                            !.pushed = << >>,
                            !.last = [op |-> "clear", before |-> ring.rb]]
    /\ UNCHANGED <<codec, rope, data_sock, wire, routerSide, dataVars>>

RingNext ==
    \/ \E capacity \in 1..MaxCap : RingNew(capacity)
    \/ \E line \in RingLines : RingPush(line)
    \/ \E lines \in SeqsUpTo(RingLines, 2) : RingPushLines(lines)
    \/ \E new_capacity \in 1..MaxCap : RingResize(new_capacity)
    \/ RingClear

RingSpec == Init /\ [][RingNext]_vars

\* ------------------------------------------------- gbe-buffer: RopeBuffer
Texts == Strings(MaxText)
Positions == 0..(MaxRope + 1)

\* the buffer after a call that returned r (or panicked)
AfterCall(op, args, text, r) ==
    [st |-> IF r.out.res = "Panic" THEN "panicked" ELSE "live",
     content |-> r.content,
     last |-> [op |-> op, args |-> args, text |-> text, out |-> r.out,
               before |-> rope.content],
     prev |-> IF rope.last.op = "insert" THEN rope.last ELSE NoCall]

\* RopeBuffer::with_content(content)
RopeWithContent(content) ==
    /\ rope.st = "none"
    /\ rope' = [RopeIdle EXCEPT !.st = "live", !.content = content]
    /\ UNCHANGED <<codec, ring, data_sock, wire, routerSide, dataVars>>

\* buf.insert(pos, text)
RopeInsert(pos, text) ==
    /\ rope.st = "live"
    /\ Len(rope.content) + Len(text) <= MaxRope
    /\ rope' = AfterCall("insert", <<pos>>, text, insert(rope.content, pos, text))
    /\ UNCHANGED <<codec, ring, data_sock, wire, routerSide, dataVars>>

\* buf.delete(start..end)
RopeDelete(start, end) ==
    /\ rope.st = "live"
    /\ rope' = AfterCall("delete", <<start, end>>, << >>, delete(rope.content, start, end))
    /\ UNCHANGED <<codec, ring, data_sock, wire, routerSide, dataVars>>

\* buf.replace(start..end, text)
RopeReplace(start, end, text) ==
    /\ rope.st = "live"
    /\ Len(rope.content) + Len(text) <= MaxRope
    /\ rope' = AfterCall("replace", <<start, end>>, text,
                         replace(rope.content, start, end, text))
    /\ UNCHANGED <<codec, ring, data_sock, wire, routerSide, dataVars>>

\* buf.slice(start..end)
RopeSlice(start, end) ==
    /\ rope.st = "live"
    /\ rope' = AfterCall("slice", <<start, end>>, << >>, slice(rope.content, start, end))
    /\ UNCHANGED <<codec, ring, data_sock, wire, routerSide, dataVars>>

RopeNext ==
    \/ \E content \in Strings(MaxContent) : RopeWithContent(content)
    \/ \E pos \in Positions, text \in Texts : RopeInsert(pos, text)
    \/ \E start \in Positions, end \in Positions : RopeDelete(start, end)
    \/ \E start \in Positions, end \in Positions, text \in Texts :
          RopeReplace(start, end, text)
    \/ \E start \in Positions, end \in Positions : RopeSlice(start, end)

RopeSpec == Init /\ [][RopeNext]_vars

\* ------------------------------------- gbe-adapter: the data listener
\* main(): UnixListener::bind(socket_path), thread::spawn(handle_data_stream)
DataSockBind ==
    /\ data_sock.listener = "none"
    /\ data_sock' = [data_sock EXCEPT !.listener = "bound"]
    /\ UNCHANGED <<codec, ring, rope, wire, routerSide, dataVars>>

\* a peer connects to the data socket: the kernel queues the connection
PeerConnect(p) ==
    /\ data_sock.listener = "bound"
    /\ p # data_sock.accepted
    /\ \A i \in DOMAIN data_sock.backlog : data_sock.backlog[i] # p
    /\ data_sock' = [data_sock EXCEPT !.backlog = Append(@, p)]
    /\ UNCHANGED <<codec, ring, rope, wire, routerSide, dataVars>>

\* an accept loop: every queued connection is accepted and replaces `stream`
DataSockAccept_again ==
    /\ data_sock.listener = "bound"
    /\ data_sock.backlog # << >>
    /\ data_sock' = [data_sock EXCEPT !.accepted = Head(data_sock.backlog),
                                      !.backlog = Tail(@)]
    /\ UNCHANGED <<codec, ring, rope, wire, routerSide, dataVars>>

\* handle_data_stream: listener.accept(), called once; try_clone
DataSockAccept ==
    /\ data_sock.listener = "bound"
    /\ data_sock.accepted = "none"
    /\ data_sock.backlog # << >>
    /\ data_sock' = [data_sock EXCEPT !.accepted = Head(data_sock.backlog),
                                      !.backlog = Tail(@)]
    /\ UNCHANGED <<codec, ring, rope, wire, routerSide, dataVars>>

\* a framer thread: frame.write_to(&mut conn), conn a clone of `stream`
DataSockWrite ==
    /\ data_sock.listener = "bound"
    /\ data_sock.accepted # "none"
    /\ data_sock.emitted < MaxOut
    /\ data_sock' = [data_sock EXCEPT !.emitted = @ + 1,
                                      !.got[data_sock.accepted] = @ + 1]
    /\ UNCHANGED <<codec, ring, rope, wire, routerSide, dataVars>>

\* handle_data_stream returns after joining both framer threads: the
\* listener and the stream are dropped
DataSockDrop ==
    /\ data_sock.listener = "bound"
    /\ data_sock.accepted # "none"
    /\ data_sock' = [data_sock EXCEPT !.listener = "dropped"]
    /\ UNCHANGED <<codec, ring, rope, wire, routerSide, dataVars>>

DataSockNext ==
    \/ DataSockBind
    \/ \E p \in DataPeers : PeerConnect(p)
    \/ DataSockAccept
    \/ DataSockWrite
    \/ DataSockDrop

DataSockSpec == Init /\ [][DataSockNext]_vars

\* ------------------------------ gbe-adapter: the bytes on the data connection
\* handle_data_stream: accept, try_clone, both framer threads spawned
WireOpen ==
    /\ wire.st = "none"
    /\ wire' = [wire EXCEPT !.st = "open"]
    /\ UNCHANGED <<codec, ring, rope, data_sock, routerSide, dataVars>>

\* a framer thread reads a line: fetch_add on seq, DataFrame::new, and
\* write_to's to_bytes
WireFrame(s, line) ==
    /\ wire.st = "open"
    /\ wire.pending[s] = << >>
    /\ wire.seq < MaxFrames
    /\ wire' = [wire EXCEPT !.seq = @ + 1,
                            !.pending[s] = to_bytes(DataFrame(wire.seq, WirePayload(s, line))),
                            !.started[s] = FALSE,
                            !.short[s] = 0]
    /\ UNCHANGED <<codec, ring, rope, data_sock, routerSide, dataVars>>

\* write_all's loop on thread s, one write(2) on its clone of the socket: the
\* kernel accepts the n first bytes of what is left, with no lock shared
\* with the other thread's writes
WireWrite(s, n) ==
    /\ wire.pending[s] # << >>
    /\ n \in 1..Len(wire.pending[s])
    /\ n < Len(wire.pending[s]) => wire.short[s] < MaxShort
    /\ wire' = [wire EXCEPT
                  !.bytes = @ \o SubSeq(wire.pending[s], 1, n),
                  !.pending[s] = SubSeq(@, n + 1, Len(@)),
                  !.started[s] = TRUE,
                  !.short[s] = IF n < Len(wire.pending[s]) THEN @ + 1 ELSE @,
                  !.begun = IF wire.started[s] THEN @ ELSE Append(@, wire.pending[s])]
    /\ UNCHANGED <<codec, ring, rope, data_sock, routerSide, dataVars>>

WireNext ==
    \/ WireOpen
    \/ \E s \in Streams, line \in WireLines : WireFrame(s, line)
    \/ \E s \in Streams, n \in 1..WireMost : WireWrite(s, n)

WireSpec == Init /\ [][WireNext]_vars

\* ================================================================ claims
InList(list, x) == \E i \in 1..Len(list) : list[i] = x

Closed(c) == pc[c] \in {"closed_ok", "closed_err"}

\* C1: the identities assign_tool_id returns are pairwise distinct and their
\* ordinals strictly increase in allocation order, whatever proxies were
\* spawned in between; every ConnectAck carries one of them, the one
\* allocated for its own connection, so no two ConnectAcks carry the same.
C1_IdentitiesDistinctAndIncreasing ==
    /\ \A i, j \in 1..Len(issued) :
          i < j => /\ issued[i].id # issued[j].id
                   /\ OrdinalOf(issued[i].id) < OrdinalOf(issued[j].id)
    /\ \A c \in Conns :
          response[c].type = "ConnectAck" =>
              \E i \in 1..Len(issued) :
                  issued[i].id = response[c].tool_id /\ issued[i].conn = c
    /\ \A a, b \in Conns :
          (a # b /\ response[a].type = "ConnectAck" /\ response[b].type = "ConnectAck")
              => response[a].tool_id # response[b].tool_id

\* two identities were handed out with a proxy spawned in between
C1_Witness ==
    /\ Len(issued) >= 2
    /\ OrdinalOf(issued[2].id) > OrdinalOf(issued[1].id) + 1

\* C2: once the worker of a connection has ended, for whatever reason, no
\* identity assigned on that connection is in the registry.
C2_NoIdentityAfterWorkerEnded ==
    \A i \in 1..Len(issued) :
        Closed(issued[i].conn) => issued[i].id \notin DOMAIN connections

\* C3: an identity whose unregister_connection has returned is no
\* subscriber in any subscription list and keys no subscription list.
C3_UnregisteredAbsentFromSubscriptions ==
    \A t \in unregistered :
        /\ t \notin DOMAIN subscriptions
        /\ \A s \in DOMAIN subscriptions : ~InList(subscriptions[s], t)

\* C4: the SubscribeAck replies written to two different subscribers for the
\* same target carry the same data_connect_address (stated for the replies
\* that name a proxy: a reply that falls back to the target's own data
\* address after a failed spawn is left aside).
C4_SameTargetSameAddress ==
    \A a, b \in subAcks :
        (/\ a.target = b.target
         /\ a.subscriber # b.subscriber
         /\ a.address # assign_data_address(a.target)
         /\ b.address # assign_data_address(b.target))
            => a.address = b.address

\* C5: no proxy entry exists for an identity whose unregister_connection
\* has returned.
C5_NoProxyEntryForUnregistered ==
    \A t \in DOMAIN proxies : t \notin unregistered

\* C6: when a registered peer's Subscribe names a target that is not in the
\* registry, the reply is Error{NOT_FOUND} with a message containing
\* "not found", and the step changes none of the three tables, the counter
\* or the set of proxies.
C6_SubscribeUnknownIsNotFound ==
    [][\A c \in Conns, t \in Targets :
          (RecvSubscribe(c, t) /\ tool_id[c] # NoId /\ t \notin DOMAIN connections)
              => /\ response'[c].type = "Error"
                 /\ response'[c].code = "NOT_FOUND"
                 /\ InList(response'[c].message, " not found")
                 /\ pc'[c] = "send"
                 /\ UNCHANGED <<next_seq, connections, subscriptions, proxies, relays>>]_vars

\* a registered peer's Subscribe has been answered NOT_FOUND
C6_Witness ==
    \E c \in Conns :
        /\ pc[c] = "send"
        /\ tool_id[c] # NoId
        /\ locals[c].arm = "Subscribe"
        /\ response[c].type = "Error"
        /\ locals[c].target \notin DOMAIN connections

\* C7: once the adapter's child has exited, the adapter eventually sends
\* Disconnect and its identity leaves the registry.
C7_ChildExitLeadsToUnregistered ==
    (adapter.child = "exited")
        ~> (adapter.pc = "exited" /\ adapter.tool_id \notin DOMAIN connections)

\* a line other than Connect is read on a connection that has not registered
PreConnectOther(c) ==
    /\ tool_id[c] = NoId
    /\ \/ \E t \in Targets : RecvSubscribe(c, t)
       \/ \E t \in Targets : RecvUnsubscribe(c, t)
       \/ \E t \in Targets : RecvQueryCapabilities(c, t)
       \/ \E order \in IterOrders(connections) : RecvQueryTools(c, order)
       \/ RecvDisconnect(c)
       \/ \E tag \in RouterTags : RecvUnexpected(c, tag)

\* C8: before Connect, every other message is answered Error{PROTOCOL}, is
\* not performed and changes no table.
C8_PreConnectRefusedWithProtocolError ==
    [][\A c \in Conns :
          PreConnectOther(c)
              => /\ response'[c].type = "Error"
                 /\ response'[c].code = "PROTOCOL"
                 /\ UNCHANGED <<next_seq, connections, subscriptions, proxies>>]_vars

\* C9: a line that does not parse is answered Error{BAD_REQUEST} before the
\* connection is closed.
C9_MalformedLineAnsweredBadRequest ==
    [][\A c \in Conns :
          RecvError(c, "parse")
              => /\ response'[c].type = "Error"
                 /\ response'[c].code = "BAD_REQUEST"]_vars

\* C10: at most one reply is written per line read, and it is written before
\* the next line is read: no reply is pending when recv_message is called, a
\* reply is written only when none was written since the last read, and it is
\* the pending reply computed for that read.
C10_OneReplyBeforeNextRead ==
    /\ [](\A c \in Conns : /\ replies[c] <= 1
                           /\ pc[c] = "recv" => response[c] = NoMsg)
    /\ [][\A c \in Conns :
            /\ nread'[c] # nread[c] => (pc[c] = "recv" /\ response[c] = NoMsg
                                         /\ nread'[c] = nread[c] + 1 /\ replies'[c] = 0)
            /\ replies'[c] > replies[c] => (replies[c] = 0 /\ response[c] # NoMsg
                                             /\ nread'[c] = nread[c])]_vars

\* the second line read on a connection has been answered
C10_Witness ==
    \E c \in Conns : nread[c] = 2 /\ replies[c] = 1 /\ pc[c] = "recv"

\* the viewer's writer is in the proxy's downstream map
InMap(v) == \E id \in DOMAIN downstreams : downstreams[id] = v

\* C11: the frames the adapter writes on its data connection carry the
\* sequence numbers 0, 1, 2, ... in the order they are written, however the
\* stdout and stderr framer threads are scheduled.
C11_WireSeqContiguousIncreasing ==
    \A i \in 1..Len(upstream.wire) : upstream.wire[i].seq = i - 1

\* C12: while a viewer's connection is in the downstream map, the frames
\* written to it are exactly the frames the proxy read from upstream since
\* the connection was inserted, once each and in upstream order (stated
\* where the frame last read has been broadcast).
C12_SentIsWhatWasReadWhileInMap ==
    \A v \in Viewers :
        (InMap(v) /\ proxy.pc \in {"loop", "read"})
            => sent[v] = SubSeq(upstream.wire, joined[v].read + 1, upstream.nread)

\* C12 as amended: while a viewer's connection is in the downstream map, the
\* frames written to it are exactly the frames the proxy broadcast since the
\* connection was inserted, once each and in order; and the frames broadcast
\* are the frames of the upstream stream, once each and in upstream order.
C12_SentIsWhatWasBroadcastWhileInMap ==
    /\ \A v \in Viewers :
          InMap(v) => sent[v] = SubSeq(bcast, joined[v].bcast + 1, Len(bcast))
    /\ bcast = SubSeq(upstream.wire, 1, Len(bcast))
    /\ Len(bcast) = IF proxy.pc = "broadcast" THEN upstream.nread - 1 ELSE upstream.nread

\* a viewer inserted after the first broadcast is in the map and has been
\* written the frame that followed
C12_Witness ==
    \E v \in Viewers :
        /\ InMap(v)
        /\ joined[v].bcast >= 1
        /\ sent[v] # << >>

\* C13: two viewers that are both in the downstream map have been sent the
\* same frames in the same order since the later of their inserts, and no
\* viewer is sent a frame that was broadcast before its insert.
C13_SameFramesSameOrder ==
    /\ \A v, w \in Viewers :
          (v # w /\ InMap(v) /\ InMap(w) /\ joined[v].bcast <= joined[w].bcast)
              => SubSeq(sent[v], joined[w].bcast - joined[v].bcast + 1, Len(sent[v]))
                     = sent[w]
    /\ \A v \in DOMAIN joined :
          \A i \in 1..Len(sent[v]), k \in 1..joined[v].bcast : sent[v][i] # bcast[k]

\* two viewers are in the map, one inserted after a broadcast, and a frame
\* was sent to both
C13_Witness ==
    \E v, w \in Viewers :
        /\ v # w /\ InMap(v) /\ InMap(w)
        /\ joined[v].bcast < joined[w].bcast
        /\ sent[w] # << >>

\* the wrapped command has written to its stdout only
StdoutOnly == child_io.to_stderr = 0

\* C14: when both viewers have connected to the proxy's address before any
\* frame was broadcast, each is sent the adapter's stream from its first
\* frame: for a command that echoes 1, 2, ... the payloads "1", "2", ... in
\* order.
C14_BothFromFirstFrame ==
    (early = Viewers /\ StdoutOnly)
        => \A v \in Viewers :
              \A i \in 1..Len(sent[v]) : sent[v][i].payload = Digits(i) \o <<"\n">>

\* C15: the proxy reads from upstream only while its downstream map holds a
\* connection: at every read that returns, and for as long as a read is in
\* progress.
C15_NoReadWhileMapEmpty ==
    /\ [](proxy.pc = "read" => downstream_count > 0)
    /\ [][upstream'.nread # upstream.nread => downstream_count > 0]_vars

\* a frame has been read from upstream
C15_Witness == upstream.nread > 0 /\ proxy.pc = "broadcast"

\* C16: when the write to a downstream fails in broadcast_frame, exactly the
\* downstreams whose write failed leave the map; every other downstream of
\* the map is sent the frame and stays, and the proxy goes on to its next
\* loop iteration.
C16_OnlyFailedDownstreamEvicted ==
    [][(proxy.pc = "broadcast" /\ proxy'.pc # "broadcast")
          => LET failing == {id \in DOMAIN downstreams : viewers[downstreams[id]] = "closed"}
             IN  /\ DOMAIN downstreams' = (DOMAIN downstreams) \ failing
                 /\ \A id \in (DOMAIN downstreams) \ failing :
                       /\ downstreams'[id] = downstreams[id]
                       /\ sent'[downstreams[id]] = Append(sent[downstreams[id]], proxy.frame)
                 /\ proxy'.pc = "loop"]_vars

\* one viewer was evicted by the broadcast of a frame that the other, still
\* in the map, was sent
C16_Witness ==
    \E v, w \in Viewers :
        /\ v \in evicted
        /\ InMap(w)
        /\ proxy.pc = "loop"
        /\ sent[w] # << >>
        /\ Len(sent[w]) = Len(bcast) - joined[w].bcast
        /\ Len(sent[v]) = Len(bcast) - joined[v].bcast - 1

\* C17: once the adapter has closed its data socket, the proxy eventually
\* exits, whatever the number of its downstream connections.
C17_UpstreamEofLeadsToExit ==
    UpstreamEof ~> (proxy.pc = "exited")

\* the capability list an identity was given in the Connect that created it
CapsAtConnect(t) == (CHOOSE r \in {issued[i] : i \in 1..Len(issued)} : r.id = t).capabilities

\* C18: QueryCapabilities{target} is answered with CapabilitiesResponse
\* carrying the list the target supplied in its Connect, same elements in
\* the same order, when the target is registered, and with Error{NOT_FOUND}
\* otherwise; neither case changes a table or the counter.
C18_QueryCapabilitiesAnswer ==
    [][\A c \in Conns, t \in Targets :
          RecvQueryCapabilities(c, t)
              => /\ IF t \in DOMAIN connections
                    THEN response'[c] = [type |-> "CapabilitiesResponse",
                                         capabilities |-> CapsAtConnect(t)]
                    ELSE /\ response'[c].type = "Error"
                         /\ response'[c].code = "NOT_FOUND"
                 /\ pc'[c] = "send"
                 /\ UNCHANGED <<next_seq, connections, subscriptions, proxies>>]_vars

\* a registered peer asked for the capabilities of another registered peer
\* and is being sent that peer's list
C18_Witness ==
    \E c \in Conns :
        /\ pc[c] = "send"
        /\ locals[c].arm = "QueryCapabilities"
        /\ response[c].type = "CapabilitiesResponse"
        /\ tool_id[c] # NoId
        /\ locals[c].target # tool_id[c]
        /\ response[c].capabilities # connections[tool_id[c]].capabilities

\* C19: the tool list of a ToolsResponse is the registry as it stands when
\* list_tools runs: every registered identity is listed exactly once, with
\* the capabilities of its Connect, and no other identity is listed.
C19_ToolsResponseIsSnapshot ==
    [][\A c \in Conns, order \in IterOrders(connections) :
          RecvQueryTools(c, order)
              => /\ response'[c].type = "ToolsResponse"
                 /\ LET tools == response'[c].tools
                    IN  /\ \A t \in DOMAIN connections :
                              /\ Cardinality({i \in 1..Len(tools) : tools[i].tool_id = t}) = 1
                              /\ \A i \in 1..Len(tools) :
                                    tools[i].tool_id = t
                                        => tools[i].capabilities = CapsAtConnect(t)
                        /\ \A i \in 1..Len(tools) : tools[i].tool_id \in DOMAIN connections]_vars

\* a ToolsResponse listing two tools is being sent
C19_Witness ==
    \E c \in Conns :
        /\ pc[c] = "send"
        /\ response[c].type = "ToolsResponse"
        /\ Len(response[c].tools) = 2

\* str::contains on strings kept as sequences
Contains(s, sub) ==
    \E i \in 0..(Len(s) - Len(sub)) : SubSeq(s, i + 1, i + Len(sub)) = sub

\* C20: the data_connect_address of a SubscribeAck contains the target's
\* identity string, and its capabilities are the target's.
C20_SubscribeAckNamesTarget ==
    \A c \in Conns :
        (pc[c] = "send" /\ response[c].type = "SubscribeAck")
            => /\ Contains(response[c].data_connect_address, locals[c].target)
               /\ response[c].capabilities = CapsAtConnect(locals[c].target)

\* frames that arrived whole in the buffer: all those written, less the last
\* one if the writer went away within it
WholeFrames ==
    IF codec.lost > 0 THEN SubSeq(codec.written, 1, Len(codec.written) - 1)
    ELSE codec.written

RECURSIVE EncodedLen(_)
\* bytes write_to wrote for a sequence of frames
EncodedLen(frames) ==
    IF frames = << >> THEN 0
    ELSE 12 + Len(Head(frames).payload) + EncodedLen(Tail(frames))

\* C21: from_bytes(to_bytes(frame)) returns the frame it was given; and when
\* K frames were written with write_to into one buffer, the first K calls of
\* read_from return those frames in the order written, the i-th call having
\* consumed exactly the bytes of the first i frames.
C21_FrameRoundTrip ==
    /\ codec.written # << >> =>
           codec.round = Ok(codec.written[Len(codec.written)])
    /\ \A i \in 1..Len(codec.reads) :
           i <= Len(WholeFrames) =>
              /\ codec.reads[i].result = Ok(WholeFrames[i])
              /\ codec.reads[i].pos = EncodedLen(SubSeq(WholeFrames, 1, i))

\* two frames of different payload lengths, the second with a seq of two
\* significant bytes, written to one buffer and both read back from it
C21_Witness ==
    /\ codec.lost = 0
    /\ Len(codec.written) = 2
    /\ Len(codec.reads) = 2
    /\ codec.written[2].seq = 256
    /\ Len(codec.written[1].payload) # Len(codec.written[2].payload)
    /\ codec.written[2].payload # << >>
    /\ codec.pos = Len(codec.buf)

\* C22: a read_from call that finds no byte of the next header reports the
\* end of the stream and no error, and a call that finds some but not all
\* of the 12 header bytes reports a protocol error.
C22_EndOfStreamIsNotAnError ==
    \A i \in 1..Len(codec.reads) :
       /\ codec.reads[i].avail = 0 => codec.reads[i].result.res # "Err"
       /\ codec.reads[i].avail \in 1..11 => codec.reads[i].result.res = "Err"

\* C23: no worker of the router holds more than one of the three table
\* mutexes (registry, subscriptions, relays) at the same time.
C23_AtMostOneTableMutexHeld ==
    \A c \in Conns : Cardinality(MutexesHeld(c)) <= 1

\* C24: an Unsubscribe{target} from a registered peer leaves the registry,
\* the subscription table (the caller's membership in the target's list and
\* subscriber_count(target) included) and the relay table as they were, and
\* the worker goes on to its next recv_message without writing a reply.
C24_UnsubscribeChangesNothing ==
    [][\A c \in Conns, t \in Targets :
          RecvUnsubscribe(c, t) /\ tool_id[c] # NoId =>
             /\ UNCHANGED <<connections, subscriptions, proxies>>
             /\ subscriber_count(t)' = subscriber_count(t)
             /\ (t \in DOMAIN subscriptions /\ InList(subscriptions[t], tool_id[c])
                   => InList(subscriptions'[t], tool_id[c]))
             /\ response'[c] = NoMsg
             /\ replies'[c] = 0
             /\ pc'[c] = "recv"]_vars

\* a subscriber of a target asked to be unsubscribed from it, got no reply,
\* and is still in the target's list
C24_Witness ==
    \E c \in Conns, u \in unsub_log :
       /\ tool_id[c] = u.subscriber
       /\ u.target \in DOMAIN subscriptions
       /\ InList(subscriptions[u.target], u.subscriber)
       /\ pc[c] = "recv"
       /\ replies[c] = 0

\* C25: for a buffer created with capacity c > 0 (and not resized) onto which
\* K > c lines were pushed (since it was created or cleared), len() = c, total_pushed() = K, is_full() holds, and get(i)
\* for i = 0 .. c-1 is the (K-c+1+i)-th line pushed: the resident lines are
\* the last c lines pushed, in push order.
C25_RingKeepsLastCapacityLines ==
    LET K == Len(ring.pushed)
        c == ring.rb.capacity
    IN  c > 0 /\ ~ring.resized /\ K > c =>
           /\ ring_len(ring.rb) = c
           /\ total_pushed(ring.rb) = K
           /\ is_full(ring.rb)
           /\ \A i \in 0..(c - 1) : ring_get(ring.rb, i) = Some(ring.pushed[K - c + 1 + i])
           /\ ring_get(ring.rb, c) = None

\* a buffer of capacity 2 or more that has evicted at least two lines, with
\* different lines among those pushed
C25_Witness ==
    /\ ring.rb.capacity >= 2
    /\ Len(ring.pushed) >= ring.rb.capacity + 2
    /\ \E i, j \in 1..Len(ring.pushed) : ring.pushed[i] # ring.pushed[j]
    /\ ring.rb.lines[1] # ring.rb.lines[2]

\* C26: for every content, every position p <= len and every text t,
\* insert(p, t) succeeds, and a delete(p .. p+|t|) that follows it succeeds
\* and leaves the content the buffer had before the insert.
C26_InsertThenDeleteRestores ==
    /\ (rope.last.op = "insert" /\ rope.last.args[1] <= Len(rope.last.before))
          => rope.last.out.res = "Ok"
    /\ (/\ rope.prev.op = "insert"
        /\ rope.prev.out.res = "Ok"
        /\ rope.last.op = "delete"
        /\ rope.last.args = <<rope.prev.args[1], rope.prev.args[1] + Len(rope.prev.text)>>)
          => /\ rope.last.out.res = "Ok"
             /\ rope.content = rope.prev.before

\* C27: insert with pos > len returns OutOfBounds; delete and slice return
\* InvalidRange when start > end and (otherwise) OutOfBounds when end > len;
\* a call that returns an error leaves the content unchanged; and replace
\* either returns Ok with the range deleted and the text inserted at its
\* start, or returns an error with the content unchanged.
C27_RopeErrorsLeaveContent ==
    LET call == rope.last
    IN  call.op # "none" =>
        LET len == Len(call.before)
            start == call.args[1]
            end == call.args[2]
        IN  /\ (call.op = "insert" /\ start > len)
                  => call.out = Err(OutOfBounds(start))
            /\ (call.op \in {"delete", "slice"} /\ start > end)
                  => call.out = Err(InvalidRange(start, end))
            /\ (call.op \in {"delete", "slice"} /\ start <= end /\ end > len)
                  => call.out = Err(OutOfBounds(end))
            /\ call.out.res = "Err" => rope.content = call.before
            /\ call.op = "replace" =>
                  \/ /\ call.out.res = "Ok"
                     /\ rope.content = SubSeq(call.before, 1, start) \o call.text
                                          \o SubSeq(call.before, end + 1, len)
                  \/ /\ call.out.res = "Err"
                     /\ rope.content = call.before

\* C28: when the adapter process has ended after sending Disconnect, its
\* exit code is the exit code of the wrapped command.
C28_AdapterExitsWithChildCode ==
    adapter.pc = "exited" => adapter.exit_code = adapter.exit_status

\* C29: the first identity assigned has ordinal 001 and each later one has
\* the ordinal of the identity assigned before it plus one, whatever
\* Subscribe requests were handled in between.
C29_OrdinalsConsecutive ==
    /\ issued # << >> => OrdinalOf(issued[1].id) = 1
    /\ \A i \in 1..(Len(issued) - 1) :
          OrdinalOf(issued[i + 1].id) = OrdinalOf(issued[i].id) + 1

\* C29, amended: the first identity assigned has ordinal 001 and each later
\* one has the ordinal of the identity assigned before it, plus one, plus the
\* number of spawn_proxy calls made in between (each draws one ordinal).
C29_OrdinalsConsecutiveButForProxies ==
    /\ issued # << >> => OrdinalOf(issued[1].id) = 1
    /\ \A i \in 1..(Len(issued) - 1) :
          LET a == OrdinalOf(issued[i].id)
              b == OrdinalOf(issued[i + 1].id)
          IN  b = a + 1 + Cardinality({k \in DOMAIN relays : a < k /\ k < b})

\* three identities: the second right after the first, the third after a
\* Subscribe that spawned a proxy
C29_Witness ==
    /\ Len(issued) >= 3
    /\ OrdinalOf(issued[2].id) = OrdinalOf(issued[1].id) + 1
    /\ OrdinalOf(issued[3].id) = OrdinalOf(issued[2].id) + 2
    /\ OrdinalOf(issued[2].id) + 1 \in DOMAIN relays

\* C30: every frame the relay has read from upstream and broadcast was
\* written and flushed to the connection of at least one downstream.
C30_EveryFrameReachesSomeDownstream ==
    \A i \in 1..Len(bcast) : \E v \in Viewers : InList(sent[v], bcast[i])

\* C31: when Command::spawn of the relay fails, the worker's reply is a
\* SubscribeAck whose data_connect_address is the target's own
\* data_listen_address, the step removes nothing from the subscription table
\* (the caller stays in the list of a target that is still registered) and
\* inserts no entry in the relay table.
C31_SpawnFailureFallsBackToDirect ==
    [][\A c \in Conns :
          SubSpawn(c, FALSE) =>
             /\ response'[c] = SubscribeAck(assign_data_address(locals[c].target),
                                            locals[c].info.capabilities)
             /\ pc'[c] = "send"
             /\ UNCHANGED <<subscriptions, proxies>>
             /\ (locals[c].target \in DOMAIN connections
                   => InList(subscriptions'[locals[c].target], tool_id[c]))]_vars

\* a worker about to send the direct address of a target that has no relay
\* entry and lists the caller as a subscriber
C31_Witness ==
    \E c \in Conns :
       /\ pc[c] = "send"
       /\ response[c].type = "SubscribeAck"
       /\ response[c].data_connect_address = assign_data_address(locals[c].target)
       /\ locals[c].target \notin DOMAIN proxies
       /\ locals[c].target \in DOMAIN subscriptions
       /\ InList(subscriptions[locals[c].target], tool_id[c])

\* C32: the adapter accepts at most one connection on its data socket: once
\* a peer is accepted no other peer ever is, every frame the adapter writes
\* goes to the accepted peer's connection, and a peer that connected later
\* stays in the accept queue and receives no frame.
C32_OneDataConnectionServed ==
    [][/\ data_sock.accepted # "none" => data_sock'.accepted = data_sock.accepted
       /\ \A p \in DataPeers :
             /\ data_sock'.got[p] # data_sock.got[p] => p = data_sock.accepted
             /\ (data_sock.accepted # "none" /\ InList(data_sock'.backlog, p))
                   => data_sock'.got[p] = 0]_vars

\* one peer was accepted and was written every frame; two more connected,
\* were left in the queue until the listener was dropped, and got none
C32_Witness ==
    /\ data_sock.listener = "dropped"
    /\ data_sock.accepted # "none"
    /\ Len(data_sock.backlog) = 2
    /\ data_sock.emitted = MaxOut
    /\ data_sock.got[data_sock.accepted] = MaxOut
    /\ \A p \in DataPeers : p # data_sock.accepted => data_sock.got[p] = 0

\* a step in which connection c fails: its worker returns Err (a read or
\* parse error, a failed reply, Subscribe or Unsubscribe without Connect), or
\* it reads a message only the router sends
FailsOn(c) ==
    \/ pc[c] # "closed_err" /\ pc'[c] = "closed_err"
    \/ \E tag \in RouterTags : RecvUnexpected(c, tag)

\* C33: an I/O error, a parse error or a protocol violation on one control
\* connection changes no registry entry, subscription list or relay entry,
\* and leaves every other connection's worker where it was, with its
\* identity: the broker goes on serving them.
C33_ErrorsStayOnTheirConnection ==
    [][\A c \in Conns :
          FailsOn(c) => /\ UNCHANGED <<connections, subscriptions, proxies>>
                        /\ \A d \in Conns \ {c} : /\ pc'[d] = pc[d]
                                                   /\ tool_id'[d] = tool_id[d]]_vars

\* one connection has failed while another is registered, subscribed and
\* relayed, and its worker is waiting for its next message
C33_Witness ==
    \E c \in Conns, d \in Conns :
        /\ c # d
        /\ pc[c] = "closed_err"
        /\ pc[d] = "recv"
        /\ tool_id[d] \in DOMAIN connections
        /\ tool_id[d] \in DOMAIN proxies
        /\ tool_id[d] \in DOMAIN subscriptions
        /\ InList(subscriptions[tool_id[d]], tool_id[d])

\* positions at which a worker is about to lock a table mutex
LockSteps == {"register", "sub_add", "sub_getproxy", "sub_store",
              "unreg_subs", "unreg_proxies"}

C35_RelayEntriesAreRunning ==
    \A t \in DOMAIN proxies : relays[proxies[t].child].st # "exited"

\* identities assigned on connection c that are in the registry
RegisteredOn(c) ==
    {issued[i].id : i \in {k \in 1..Len(issued) : issued[k].conn = c}} \cap DOMAIN connections

\* C36: a control connection accounts for at most one registry entry at any
\* time (a second Connect does not leave the earlier identity registered
\* beside the new one), and for none once it is closed.
C36_OneRegistryEntryPerConnection ==
    \A c \in Conns : /\ Cardinality(RegisteredOn(c)) <= 1
                      /\ pc[c] = "closed_ok" => RegisteredOn(c) = {}

LiveSubscribes(t) ==
    Cardinality({i \in 1..Len(sub_log) : /\ sub_log[i].target = t
                                         /\ sub_log[i].subscriber \notin unregistered})

\* C38: every successful Subscribe{target} appends its caller once, also when
\* the caller is the target or is listed already, so that subscriber_count
\* of any target is the number of successful Subscribe requests for it by
\* callers that have not unregistered (looked at when no
\* unregister_connection is under way).
C38_CountIsLiveSubscribes ==
    ConnectionsLockFree =>
        \A i \in 1..Len(issued) :
            subscriber_count(issued[i].id) = LiveSubscribes(issued[i].id)

\* C38, amended: the same for every target that has not itself unregistered
\* (unregister_connection deletes the list its own identity keys, whoever
\* is on it).
C38_CountIsLiveSubscribesOfLiveTarget ==
    ConnectionsLockFree =>
        \A i \in 1..Len(issued) :
            issued[i].id \notin unregistered
                => subscriber_count(issued[i].id) = LiveSubscribes(issued[i].id)

\* a registered target subscribed to itself twice: it is listed twice
C38_Witness ==
    /\ ConnectionsLockFree
    /\ \E c \in Conns :
          /\ tool_id[c] \in DOMAIN connections
          /\ tool_id[c] \notin unregistered
          /\ subscriber_count(tool_id[c]) = 2
          /\ subscriptions[tool_id[c]] = <<tool_id[c], tool_id[c]>>

\* the frames a reader gets from buf by calling read_from until it fails
RECURSIVE ReadAll(_, _)
ReadAll(buf, pos) ==
    LET r == read_from(buf, pos)
    IN  IF r.result.res = "Ok" THEN <<to_bytes(r.result.value)>> \o ReadAll(buf, r.pos)
        ELSE << >>

IsPrefix(s, t) == Len(s) <= Len(t) /\ s = SubSeq(t, 1, Len(s))

\* C39: on the adapter's data connection the bytes of different frames never
\* interleave: what the peer has received is the frames in the order they
\* were begun, each complete before the next begins, and when no write is
\* under way a reader calling read_from gets exactly those frames.
C39_FramesNeverInterleave ==
    /\ IsPrefix(wire.bytes, Flatten(wire.begun))
    /\ (\A s \in Streams : wire.pending[s] = << >>)
          => ReadAll(wire.bytes, 0) = wire.begun

\* C40: after any sequence of push, push_lines, resize and clear on a ring
\* buffer, len() <= capacity() and total_pushed() >= len(); a resize keeps
\* the newest lines that fit the new capacity, in order, and leaves
\* total_pushed unchanged; clear sets len and total_pushed to 0.
C40_RingInvariants ==
    LET rb == ring.rb
        was == ring.last.before
        kept == IF Len(was.lines) > rb.capacity THEN rb.capacity ELSE Len(was.lines)
    IN  /\ rb.capacity > 0 => /\ ring_len(rb) <= rb.capacity
                              /\ total_pushed(rb) >= ring_len(rb)
        /\ ring.last.op = "resize" =>
              /\ rb.lines = SubSeq(was.lines, Len(was.lines) - kept + 1, Len(was.lines))
              /\ total_pushed(rb) = total_pushed(was)
        /\ ring.last.op = "clear" => ring_len(rb) = 0 /\ total_pushed(rb) = 0

\* a resize has just cut a buffer of three lines down to its two newest,
\* which differ, after more lines had been pushed than it ever held
C40_Witness ==
    /\ ring.last.op = "resize"
    /\ Len(ring.last.before.lines) = 3
    /\ ring.rb.capacity = 2
    /\ ring.rb.lines[1] # ring.rb.lines[2]
    /\ total_pushed(ring.rb) > 3
====
